---- MODULE Spec2Model ----
(***************************************************************************)
(* Credential and encrypted-identity subsystem of gameshop:                *)
(*   encryption.rs  field cipher (ChaCha20-Poly1305, base64 envelope)      *)
(*   hashing.rs     password hashing (Argon2id, PHC record)                *)
(*   jwt.rs         session tokens (HS256)                                 *)
(*   database.rs / server.rs   identity store and request handlers         *)
(***************************************************************************)
EXTENDS Integers, Sequences, FiniteSets, TLC

VARIABLES
    envEncKey,   \* ENCRYPTION_KEY of the process environment: [set, val]
    blob,        \* the EncryptedField last produced: [set, key, plain, nonce, out]
    decInput,    \* input of the last decrypt_with_nonce call (base64 text)
    decKind,     \* how that input was obtained: "none", "intact", "char", "byte", "raw"
    decResult,   \* what the last decrypt_with_nonce call returned
    encLog,      \* encrypt_with_random_nonce calls made so far under the key
    hashRec,     \* the PasswordHashRecord last produced: [set, password, salt, out]
    verInput,    \* arguments of the last verify_password call: [password, record]
    verKind,     \* "none", "same", "other", "stored"
    verResult,   \* what the last verify_password call returned
    envJwtSecret,\* JWT_SECRET of the process environment: [set, val]
    now,         \* the clock (Utc::now), in seconds
    issued,      \* the token last issued: [set, sub, at, token]
    valInput,    \* the token of the last validate_jwt call
    valKind,     \* "none", "intact", "forged"
    valResult,   \* what that validate_jwt call returned
    extResult,   \* what extract_user_id_from_jwt returned on the same token
    users,       \* the users table: a set of User records
    offers,      \* the offers table: a set of Offer records
    lastResp,    \* the response to the last request
    lastReq,     \* the body of the last request
    held,        \* the password hash the token's user had when it was issued
    request,     \* the request passing through the guard: [set, method, path, auth]
    guardPc,     \* where AuthenticationMiddleware::call stands on that request
    guardState,  \* "None", "Unauthenticated", "Authenticated", "Rejected", "Bypassed"
    extensions,  \* the request-scoped context: [set, user_id]
    serviceCalls,\* how many times the wrapped service was invoked for the request
    guardReply,  \* the response the caller observes: [set, by, status, body]
    calls,       \* the Database::register calls in flight, one per caller
    keyResult,   \* what the last generate_key call returned
    process,     \* the server process: "none", "starting", "serving", "exited"
    log,         \* the texts written to the server log
    namespace,   \* the namespace the shared store connection is switched to
    ops          \* the Database operations in flight on that connection

vars == <<envEncKey, blob, decInput, decKind, decResult, encLog,
          hashRec, verInput, verKind, verResult,
          envJwtSecret, now, issued, valInput, valKind, valResult, extResult,
          users, offers, lastResp, lastReq, held,
          request, guardPc, guardState, extensions, serviceCalls, guardReply,
          calls, keyResult, process, log, namespace, ops>>

storeVars == <<users, offers, lastResp, lastReq, held>>

guardVars == <<request, guardPc, guardState, extensions, serviceCalls, guardReply>>

raceVars == <<calls>>

hostVars == <<keyResult, process, log, namespace, ops>>

jwtVars == <<envJwtSecret, now, issued, valInput, valKind, valResult, extResult>>

hashVars == <<hashRec, verInput, verKind, verResult>>

cipherVars == <<envEncKey, blob, decInput, decKind, decResult, encLog>>

(***************************************************************************)
(* Bytes, text and results                                                 *)
(***************************************************************************)
Byte == 0..255

RECURSIVE SumSeq(_)
SumSeq(s) == IF s = <<>> THEN 0 ELSE Head(s) + SumSeq(Tail(s))

Replace(s, i, v) == [s EXCEPT ![i] = v]

Ok(v) == [kind |-> "Ok", val |-> v, err |-> "none"]
Err(e) == [kind |-> "Err", val |-> <<>>, err |-> e]
Panic(e) == [kind |-> "Panic", val |-> <<>>, err |-> e]
NoResult == [kind |-> "None", val |-> <<>>, err |-> "none"]

(***************************************************************************)
(* base64 (general_purpose::STANDARD): text is a sequence of symbols,      *)
(* 0..63 the alphabet's sextets in order, PadSym the '=' sign and BadSym   *)
(* any character outside the alphabet.                                     *)
(***************************************************************************)
PadSym == 64
BadSym == 65

RECURSIVE b64_encode(_)
b64_encode(b) ==
    IF Len(b) = 0 THEN <<>>
    ELSE IF Len(b) = 1 THEN
        << b[1] \div 4, (b[1] % 4) * 16, PadSym, PadSym >>
    ELSE IF Len(b) = 2 THEN
        << b[1] \div 4, (b[1] % 4) * 16 + b[2] \div 16, (b[2] % 16) * 4, PadSym >>
    ELSE
        << b[1] \div 4, (b[1] % 4) * 16 + b[2] \div 16,
           (b[2] % 16) * 4 + b[3] \div 64, b[3] % 64 >>
        \o b64_encode(SubSeq(b, 4, Len(b)))

\* The decoder is strict: the length is a multiple of four, padding is
\* canonical and only at the end, unused trailing bits are zero.
RECURSIVE b64_decode(_)
b64_decode(t) ==
    IF Len(t) = 0 THEN Ok(<<>>)
    ELSE IF Len(t) < 4 THEN Err("InvalidLength")
    ELSE
        LET a == t[1]
            b == t[2]
            c == t[3]
            d == t[4]
            last == Len(t) = 4
        IN  IF a > 63 \/ b > 63 THEN Err("InvalidByte")
            ELSE IF c = PadSym THEN
                IF last /\ d = PadSym /\ b % 16 = 0
                THEN Ok(<< a * 4 + b \div 16 >>)
                ELSE Err("InvalidPadding")
            ELSE IF c > 63 THEN Err("InvalidByte")
            ELSE IF d = PadSym THEN
                IF last /\ c % 4 = 0
                THEN Ok(<< a * 4 + b \div 16, (b % 16) * 16 + c \div 4 >>)
                ELSE Err("InvalidPadding")
            ELSE IF d > 63 THEN Err("InvalidByte")
            ELSE
                LET rest == b64_decode(SubSeq(t, 5, Len(t)))
                IN  IF rest.kind = "Ok"
                    THEN Ok(<< a * 4 + b \div 16, (b % 16) * 16 + c \div 4,
                               (c % 4) * 64 + d >> \o rest.val)
                    ELSE rest

(***************************************************************************)
(* UTF-8 well-formedness, as String::from_utf8 decides it.                 *)
(***************************************************************************)
IsCont(x) == x >= 128 /\ x <= 191

RECURSIVE IsUtf8(_)
IsUtf8(b) ==
    IF Len(b) = 0 THEN TRUE
    ELSE
        LET h == b[1]
            n == Len(b)
        IN  IF h < 128 THEN IsUtf8(Tail(b))
            ELSE IF h >= 194 /\ h <= 223 THEN
                n >= 2 /\ IsCont(b[2]) /\ IsUtf8(SubSeq(b, 3, n))
            ELSE IF h >= 224 /\ h <= 239 THEN
                /\ n >= 3
                /\ IsCont(b[2]) /\ IsCont(b[3])
                /\ (h = 224 => b[2] >= 160)
                /\ (h = 237 => b[2] <= 159)
                /\ IsUtf8(SubSeq(b, 4, n))
            ELSE IF h >= 240 /\ h <= 244 THEN
                /\ n >= 4
                /\ IsCont(b[2]) /\ IsCont(b[3]) /\ IsCont(b[4])
                /\ (h = 240 => b[2] >= 144)
                /\ (h = 244 => b[2] <= 143)
                /\ IsUtf8(SubSeq(b, 5, n))
            ELSE FALSE

(***************************************************************************)
(* Key derivation: generate_key copies the configured secret into a        *)
(* zeroed 32-byte array, byte by byte.                                     *)
(***************************************************************************)
KeyLen == 32
NonceLen == 12
TagLen == 16

Rep(n, v) == [i \in 1..n |-> v]

EnvSet(v) == [set |-> TRUE, val |-> v]
EnvAbsent == [set |-> FALSE, val |-> <<>>]

\* A key derivation that fills a short secret up by repeating it.
generate_key_cycling(secret) ==
    IF ~secret.set \/ ~IsUtf8(secret.val) THEN Err("EnvironmentVariableError")
    ELSE IF secret.val = <<>> THEN Ok([i \in 1..KeyLen |-> 0])
    ELSE Ok([i \in 1..KeyLen |-> secret.val[((i - 1) % Len(secret.val)) + 1]])

\* A key derivation that insists on a secret of exactly 32 bytes.
generate_key_strict(secret) ==
    IF ~secret.set \/ ~IsUtf8(secret.val) \/ Len(secret.val) # KeyLen
    THEN Err("EnvironmentVariableError")
    ELSE Ok(secret.val)

\* generate_key: std::env::var fails when the variable is not set and when
\* its value is not valid Unicode.
generate_key(secret) ==
    IF ~secret.set \/ ~IsUtf8(secret.val) THEN Err("EnvironmentVariableError")
    ELSE Ok([i \in 1..KeyLen |->
                IF i <= Len(secret.val) THEN secret.val[i] ELSE 0])

(***************************************************************************)
(* ChaCha20-Poly1305 as the cipher calls use it: a keystream derived from  *)
(* key and nonce is combined with the data byte by byte, and a 16-byte     *)
(* authenticator over key, nonce and ciphertext follows the ciphertext.    *)
(* The keystream and the authenticator are arithmetic stand-ins of the     *)
(* same shape; decryption recomputes the authenticator and releases the    *)
(* plaintext only when it matches.                                         *)
(***************************************************************************)
keystream(key, nonce, i) ==
    (key[((i - 1) % KeyLen) + 1] + nonce[((i - 1) % NonceLen) + 1] + i) % 256

poly_tag(key, nonce, ct) ==
    LET acc == (SumSeq(key) + SumSeq(nonce) + SumSeq(ct) + Len(ct)) % 256
    IN  [j \in 1..TagLen |-> (acc + j) % 256]

aead_encrypt(key, nonce, pt) ==
    LET ct == [i \in 1..Len(pt) |-> (pt[i] + keystream(key, nonce, i)) % 256]
    IN  Ok(ct \o poly_tag(key, nonce, ct))

aead_decrypt_unchecked(key, nonce, data) ==
    IF Len(data) < TagLen THEN Err("aead::Error")
    ELSE
        LET n == Len(data) - TagLen
            ct == SubSeq(data, 1, n)
        IN  Ok([i \in 1..n |-> (ct[i] + 256 - keystream(key, nonce, i)) % 256])

aead_decrypt(key, nonce, data) ==
    IF Len(data) < TagLen THEN Err("aead::Error")
    ELSE
        LET n == Len(data) - TagLen
            ct == SubSeq(data, 1, n)
            tag == SubSeq(data, n + 1, Len(data))
        IN  IF tag # poly_tag(key, nonce, ct) THEN Err("aead::Error")
            ELSE Ok([i \in 1..n |-> (ct[i] + 256 - keystream(key, nonce, i)) % 256])

(***************************************************************************)
(* encrypt_with_random_nonce: nonce_bytes is what rng().fill_bytes drew.   *)
(***************************************************************************)
encrypt_fixed_nonce(key_bytes, plaintext, nonce_bytes) ==
    LET zero == Rep(NonceLen, 0)
        ciphertext == aead_encrypt(key_bytes, zero, plaintext)
    IN  IF ciphertext.kind # "Ok" THEN Err("EncryptionError")
        ELSE Ok(b64_encode(zero \o ciphertext.val))

encrypt_without_nonce(key_bytes, plaintext, nonce_bytes) ==
    LET ciphertext == aead_encrypt(key_bytes, nonce_bytes, plaintext)
    IN  IF ciphertext.kind # "Ok" THEN Err("EncryptionError")
        ELSE Ok(b64_encode(ciphertext.val))

encrypt_with_random_nonce(key_bytes, plaintext, nonce_bytes) ==
    LET ciphertext == aead_encrypt(key_bytes, nonce_bytes, plaintext)
    IN  IF ciphertext.kind # "Ok" THEN Err("EncryptionError")
        ELSE Ok(b64_encode(nonce_bytes \o ciphertext.val))

(***************************************************************************)
(* decrypt_with_nonce: split_at(12) panics when fewer than 12 bytes were   *)
(* decoded.                                                                *)
(***************************************************************************)
decrypt_skipping_tag(key_bytes, combined_base64) ==
    LET combined == b64_decode(combined_base64)
    IN  IF combined.kind # "Ok" THEN Err("DecryptionError")
        ELSE IF Len(combined.val) < NonceLen THEN Panic("split_at: mid > len")
        ELSE
            LET nonce == SubSeq(combined.val, 1, NonceLen)
                ciphertext == SubSeq(combined.val, NonceLen + 1, Len(combined.val))
                plaintext_bytes == aead_decrypt_unchecked(key_bytes, nonce, ciphertext)
            IN  IF plaintext_bytes.kind # "Ok" THEN Err("DecryptionError")
                ELSE IF ~IsUtf8(plaintext_bytes.val) THEN Err("DecryptionError")
                ELSE Ok(plaintext_bytes.val)

decrypt_with_nonce(key_bytes, combined_base64) ==
    LET combined == b64_decode(combined_base64)
    IN  IF combined.kind # "Ok" THEN Err("DecryptionError")
        ELSE IF Len(combined.val) < NonceLen THEN Panic("split_at: mid > len")
        ELSE
            LET nonce == SubSeq(combined.val, 1, NonceLen)
                ciphertext == SubSeq(combined.val, NonceLen + 1, Len(combined.val))
                plaintext_bytes == aead_decrypt(key_bytes, nonce, ciphertext)
            IN  IF plaintext_bytes.kind # "Ok" THEN Err("DecryptionError")
                ELSE IF ~IsUtf8(plaintext_bytes.val) THEN Err("DecryptionError")
                ELSE Ok(plaintext_bytes.val)

(***************************************************************************)
(* Inputs of the cipher specifications                                     *)
(***************************************************************************)
\* "12345678901234567890123456789012" (tests.rs), "key", and a 33-byte secret
Secret32 == [i \in 1..32 |-> 48 + (i % 10)]
SecretShort == <<107, 101, 121>>
SecretLong == [i \in 1..33 |-> 96 + i]
Secrets == {Secret32, SecretShort, SecretLong}
CipherSecrets == {Secret32, SecretShort}

\* "", "A", "Ab", "é", "hi!"
Plaintexts == {<<>>, <<65>>, <<65, 98>>, <<195, 169>>, <<104, 105, 33>>}

Nonces == {[i \in 1..NonceLen |-> i], Rep(NonceLen, 255)}

\* Texts a caller may hand to decrypt_with_nonce that no encryption produced:
\* the empty string, encodings of fewer than 12 bytes, of exactly 12 bytes,
\* of 28 arbitrary bytes, and text that is not base64.
RawInputs ==
    { <<>>,
      b64_encode(<<1>>),
      b64_encode(Rep(NonceLen - 1, 7)),
      b64_encode(Rep(NonceLen, 7)),
      b64_encode(Rep(NonceLen + TagLen, 7)),
      <<BadSym, 1, 2, 3>>,
      <<1, 2, 3>> }

NoBlob == [set |-> FALSE, plain |-> <<>>, nonce |-> <<>>, out |-> <<>>]

FieldKey == generate_key(envEncKey).val

(***************************************************************************)
(* Password hashing (hashing.rs).  A PHC record is the text                *)
(*   $<algorithm>$v=<version>$m=<m>,t=<t>,p=<p>$<salt>$<digest>            *)
(* held as the sequence of its fields, all numbers:                        *)
(*   <<algorithm, version, m, t, p, salt, digest>>.                        *)
(* Text that is not of this form is a sequence of another length or with   *)
(* an empty (0) field.                                                     *)
(***************************************************************************)
Argon2id == 3
Argon2i == 2
Argon2d == 1
V0x13 == 19
V0x10 == 16

DefaultParams == [m |-> 19456, t |-> 2, p |-> 1]

\* Argon2's digest of a password under a salt and cost parameters: a
\* polynomial stand-in, collision-free on the model's passwords.
RECURSIVE argon2_fold(_, _)
argon2_fold(h, pw) ==
    IF pw = <<>> THEN h
    ELSE argon2_fold((h * 257 + Head(pw) + 1) % 1000003, Tail(pw))

argon2_digest(alg, version, params, salt, password) ==
    argon2_fold(1 + ((alg + version + params.m + params.t + params.p + salt) % 97),
                password)

phc_to_string(alg, version, params, salt, digest) ==
    <<alg, version, params.m, params.t, params.p, salt, digest>>

\* PasswordHash::new
phc_parse(text) ==
    IF Len(text) # 7 THEN Err("PhcStringField")
    ELSE IF \E i \in 1..7 : text[i] = 0 THEN Err("PhcStringField")
    ELSE Ok([alg |-> text[1], version |-> text[2],
             params |-> [m |-> text[3], t |-> text[4], p |-> text[5]],
             salt |-> text[6], hash |-> text[7]])

\* Argon2::verify_password on a parsed record
argon2_verify(password, parsed) ==
    IF parsed.alg \notin {Argon2d, Argon2i, Argon2id} THEN Err("Algorithm")
    ELSE IF parsed.version \notin {V0x10, V0x13} THEN Err("Version")
    ELSE IF argon2_digest(parsed.alg, parsed.version, parsed.params,
                          parsed.salt, password) = parsed.hash
    THEN Ok(<<>>)
    ELSE Err("Password")

\* hash_random_salt: salt is what SaltString::generate drew.
hash_zero_salt(unhashed, salt) ==
    Ok(phc_to_string(Argon2id, V0x13, DefaultParams, salt,
                     argon2_digest(Argon2id, V0x13, DefaultParams, 0, unhashed)))

hash_random_salt(unhashed, salt) ==
    Ok(phc_to_string(Argon2id, V0x13, DefaultParams, salt,
                     argon2_digest(Argon2id, V0x13, DefaultParams, salt, unhashed)))

\* verify_password: the parse error leaves through `?` as it is; every
\* error of the verification itself becomes Error::Password.
verify_accepting(unhashed, password_hash) ==
    LET parsed_hash == phc_parse(password_hash)
    IN  IF parsed_hash.kind # "Ok" THEN parsed_hash
        ELSE Ok(<<>>)

verify_password(unhashed, password_hash) ==
    LET parsed_hash == phc_parse(password_hash)
    IN  IF parsed_hash.kind # "Ok" THEN parsed_hash
        ELSE
            LET is_valid == argon2_verify(unhashed, parsed_hash.val)
            IN  IF is_valid.kind = "Ok" THEN Ok(<<>>) ELSE Err("Password")

\* "password", "passw0rd"
Password1 == <<112, 97, 115, 115, 119, 111, 114, 100>>
Password2 == <<112, 97, 115, 115, 119, 48, 114, 100>>

\* "", "a", "b", "ab", "ba", "pw1" and the two above
Passwords ==
    {<<>>, <<97>>, <<98>>, <<97, 98>>, <<98, 97>>, <<112, 119, 49>>,
     Password1, Password2}
Salts == {11, 12, 108}

\* Stored text that hash_random_salt did not produce: empty, not a PHC
\* string, a truncated record, a record of another algorithm or version.
StoredRecords ==
    { <<>>,
      <<7>>,
      <<Argon2id, V0x13, 19456, 2, 1, 11>>,
      <<Argon2id, V0x13, 19456, 2, 1, 0, 5>>,
      <<9, V0x13, 19456, 2, 1, 11, 5>>,
      <<Argon2id, 18, 19456, 2, 1, 11, 5>>,
      <<Argon2i, V0x10, 19456, 2, 1, 11, 5>> }

NoHash == [set |-> FALSE, password |-> <<>>, salt |-> 0, out |-> <<>>]
NoVerify == [password |-> <<>>, record |-> <<>>]

HashIdle ==
    /\ hashRec = NoHash
    /\ verInput = NoVerify
    /\ verKind = "none"
    /\ verResult = NoResult

(***************************************************************************)
(* Session tokens (jwt.rs).  A compact token is the text                   *)
(* header.payload.signature, held as the sequence of its segments.  The    *)
(* signature of a message under a secret is the term hmac(secret, message):*)
(* it verifies under that secret and for that message only.                *)
(***************************************************************************)
DaySeconds == 86400
Leeway == 60

Header(alg) == [alg |-> alg, typ |-> "JWT"]
Claims(sub, exp, iat) == [sub |-> sub, exp |-> exp, iat |-> iat]

hmac(secret, header, payload) == [k |-> secret, h |-> header, p |-> payload]

\* jsonwebtoken::encode with Header::default()
encode(header, claims, secret) ==
    <<header, claims, hmac(secret, header, claims)>>

get_secret_key ==
    IF envJwtSecret.set THEN Ok(envJwtSecret.val)
    ELSE Panic("JWT_SECRET not found in environment")

\* generate_jwt reads the clock twice: t_exp for the expiry, t_iat afterwards.
generate_jwt_short(user_id, t_exp, t_iat) ==
    LET secret_key == get_secret_key
    IN  IF secret_key.kind # "Ok" THEN secret_key
        ELSE Ok(encode(Header("HS256"),
                       Claims(user_id, t_exp + DaySeconds - 1, t_iat),
                       secret_key.val))

generate_jwt(user_id, t_exp, t_iat) ==
    LET secret_key == get_secret_key
    IN  IF secret_key.kind # "Ok" THEN secret_key
        ELSE Ok(encode(Header("HS256"),
                       Claims(user_id, t_exp + DaySeconds, t_iat),
                       secret_key.val))

\* jsonwebtoken::decode under Validation::default(): the token's shape, its
\* header and algorithm, its signature, and only then its claims (exp with
\* the default leeway), read against the clock.
decode_expiry_first(token, secret) ==
    IF Len(token) # 3 THEN Err("InvalidToken")
    ELSE IF token[2].exp < now - Leeway THEN Err("ExpiredSignature")
    ELSE IF token[1].alg = "corrupt" THEN Err("Base64")
    ELSE IF token[1].alg # "HS256" THEN Err("InvalidAlgorithm")
    ELSE IF token[3] # hmac(secret, token[1], token[2]) THEN Err("InvalidSignature")
    ELSE Ok(token[2])

decode_no_leeway(token, secret) ==
    IF Len(token) # 3 THEN Err("InvalidToken")
    ELSE IF token[1].alg = "corrupt" THEN Err("Base64")
    ELSE IF token[1].alg # "HS256" THEN Err("InvalidAlgorithm")
    ELSE IF token[3] # hmac(secret, token[1], token[2]) THEN Err("InvalidSignature")
    ELSE IF token[2].exp <= now THEN Err("ExpiredSignature")
    ELSE Ok(token[2])

decode(token, secret) ==
    IF Len(token) # 3 THEN Err("InvalidToken")
    ELSE IF token[1].alg = "corrupt" THEN Err("Base64")
    ELSE IF token[1].alg # "HS256" THEN Err("InvalidAlgorithm")
    ELSE IF token[3] # hmac(secret, token[1], token[2]) THEN Err("InvalidSignature")
    ELSE IF token[2].exp < now - Leeway THEN Err("ExpiredSignature")
    ELSE Ok(token[2])

\* A validation that looks the subject up in the identity store and turns
\* the token away once the stored password hash is no longer the one the
\* subject had when the token was issued.
validate_jwt_revoking(token) ==
    LET secret_key == get_secret_key
        claims == decode(token, secret_key.val)
    IN  IF secret_key.kind # "Ok" THEN secret_key
        ELSE IF claims.kind # "Ok" THEN claims
        ELSE IF \E u \in users : u.id = claims.val.sub /\ u.password_hash # held
        THEN Err("Revoked")
        ELSE claims

validate_jwt(token) ==
    LET secret_key == get_secret_key
    IN  IF secret_key.kind # "Ok" THEN secret_key
        ELSE decode(token, secret_key.val)

extract_wrong_field(token) ==
    LET claims == validate_jwt(token)
    IN  IF claims.kind # "Ok" THEN claims ELSE Ok("Unknown")

extract_user_id_from_jwt(token) ==
    LET claims == validate_jwt(token)
    IN  IF claims.kind # "Ok" THEN claims ELSE Ok(claims.val.sub)

Subjects == {"u1", "u2"}
JwtSecrets == {"secret", "s3cr3t"}
OtherSecret == "attacker"

\* Tokens obtained from an issued one by altering it, or signed without the
\* configured secret.
Forgeries(t) ==
    LET h == t[1]
        c == t[2]
        g == t[3]
    IN  {<<h, [c EXCEPT !.sub = s], g>> : s \in Subjects \ {c.sub}}
        \cup {<<h, [c EXCEPT !.exp = c.exp + d], g>> : d \in {1, DaySeconds}}
        \cup {<<h, [c EXCEPT !.iat = c.iat + 1], g>>}
        \cup {<<Header(a), c, g>> : a \in {"HS384", "corrupt"}}
        \cup {<<h, c, hmac(OtherSecret, h, c)>>}
        \cup {<<h, [c EXCEPT !.exp = c.exp + DaySeconds],
                hmac(OtherSecret, h, [c EXCEPT !.exp = c.exp + DaySeconds])>>}
        \cup {<<h, c, hmac(envJwtSecret.val, Header("HS384"), c)>>}
        \cup {<<h, c>>, <<h, c, g, g>>}

NoToken == [set |-> FALSE, sub |-> "", at |-> 0, token |-> <<>>]

\* The clock is observed at these instants: around the start, around one
\* day later, and around the leeway after that.
ClockStart == 100
Instants ==
    {ClockStart + d : d \in
        {1, 2, DaySeconds - 1, DaySeconds, DaySeconds + 1, DaySeconds + 2,
         DaySeconds + Leeway - 1, DaySeconds + Leeway, DaySeconds + Leeway + 1,
         DaySeconds + Leeway + 2, 2 * DaySeconds}}

JwtIdle ==
    /\ envJwtSecret = EnvSet("secret")
    /\ now = ClockStart
    /\ issued = NoToken
    /\ valInput = <<>>
    /\ valKind = "none"
    /\ valResult = NoResult
    /\ extResult = NoResult

(***************************************************************************)
(* The identity store (database.rs) and the request handlers (server.rs).  *)
(* Text that is encrypted, hashed or case-folded is a sequence of bytes;   *)
(* other text is a string.                                                 *)
(***************************************************************************)
\* A normalisation that leaves the text as it came.
to_lowercase_keeping(t) ==
    t

\* str::to_lowercase on ASCII text
to_lowercase(t) ==
    [i \in 1..Len(t) |-> IF t[i] >= 65 /\ t[i] <= 90 THEN t[i] + 32 ELSE t[i]]

\* validator's email check: one '@' with text on both sides.
is_email(t) ==
    /\ Cardinality({i \in 1..Len(t) : t[i] = 64}) = 1
    /\ Len(t) >= 3
    /\ t[1] # 64
    /\ t[Len(t)] # 64

\* format!("{:x}", Sha256::digest(bytes)): a polynomial stand-in,
\* collision-free on the model's emails.
RECURSIVE sha256_fold(_, _)
sha256_fold(h, t) ==
    IF t = <<>> THEN h
    ELSE sha256_fold((h * 131 + Head(t) + 1) % 999983, Tail(t))

sha256_hex(t) == sha256_fold(7, t)

\* Thing::to_string of a record id
thing_to_string(id) == id

\* What one registration draws at random: the uuid, the three nonces of the
\* encrypted fields and the password salt.
Draws(uuid, nf, nl, ne, salt) ==
    [uuid |-> uuid, nf |-> nf, nl |-> nl, ne |-> ne, salt |-> salt]

StoreResult(result, table) == [result |-> result, users |-> table]

\* The row Database::register builds for CREATE users SET ...
new_user(firstname, lastname, username, password, email, draw, key_bytes) ==
    [id |-> draw.uuid,
     encrypted_firstname |-> encrypt_with_random_nonce(key_bytes, firstname, draw.nf).val,
     encrypted_lastname |-> encrypt_with_random_nonce(key_bytes, lastname, draw.nl).val,
     username |-> username,
     password_hash |-> hash_random_salt(password, draw.salt).val,
     encrypted_email |-> encrypt_with_random_nonce(key_bytes, email, draw.ne).val,
     email_hash |-> sha256_hex(email),
     created_at |-> now]

\* A users table without its unique indexes.
create_users_unindexed(table, user) ==
    StoreResult(Ok(TRUE), table \cup {user})

\* CREATE users under the unique indexes users_id and users_email_hash
create_users(table, user) ==
    IF \E u \in table : u.id = user.id \/ u.email_hash = user.email_hash
    THEN StoreResult(Err("DatabaseError"), table)
    ELSE StoreResult(Ok(TRUE), table \cup {user})

\* Database::register
db_register(table, firstname, lastname, username, password, email, draw) ==
    LET email_hash == sha256_hex(email)
        key == generate_key(envEncKey)
    IN  IF \E u \in table : u.email_hash = email_hash
        THEN StoreResult(Err("UserAlreadyExists"), table)
        ELSE IF key.kind # "Ok" THEN StoreResult(key, table)
        ELSE create_users(table, new_user(firstname, lastname, username, password,
                                          email, draw, key.val))

\* A lookup that takes whichever row comes first, whatever its digest.
authenticate_user_any_row(table, email, password) ==
    IF table = {} THEN Err("UserNotFound")
    ELSE
        LET user == CHOOSE u \in table : TRUE
        IN  IF verify_password(password, user.password_hash).kind = "Ok"
            THEN Ok(user)
            ELSE Err("InvalidPassword")

\* Database::authenticate_user
authenticate_user(table, email, password) ==
    LET email_hash == sha256_hex(email)
        found == {u \in table : u.email_hash = email_hash}
    IN  IF found = {} THEN Err("UserNotFound")
        ELSE
            LET user == CHOOSE u \in found : TRUE
            IN  IF verify_password(password, user.password_hash).kind = "Ok"
                THEN Ok(user)
                ELSE Err("InvalidPassword")

\* WHERE id = $x, where id is a record id (Thing) and $x is bound as a
\* string.  The store's code is not part of the repository: either it reads
\* the string as the record id it spells (coerced), or a string never
\* equals a record id.  Every query takes one of the two outcomes.
where_id(id, bound, coerced) == coerced /\ thing_to_string(id) = bound

\* An UPDATE that leaves out its WHERE clause.
db_change_username_all(table, user_id, new_username, coerced) ==
    StoreResult(Ok(<<>>), {[u EXCEPT !.username = new_username] : u \in table})

\* Database::change_username; the response of the UPDATE is not opened.
db_change_username(table, user_id, new_username, coerced) ==
    StoreResult(Ok(<<>>),
                {IF where_id(u.id, user_id, coerced)
                 THEN [u EXCEPT !.username = new_username]
                 ELSE u : u \in table})

\* Database::change_password; the response of the UPDATE is not opened.
db_change_password(table, user_id, new_password, salt, coerced) ==
    StoreResult(Ok(<<>>),
                {IF where_id(u.id, user_id, coerced)
                 THEN [u EXCEPT !.password_hash = hash_random_salt(new_password, salt).val]
                 ELSE u : u \in table})

(***************************************************************************)
(* AuthenticationMiddleware::call.  A path is the sequence of its          *)
(* segments: "/" is the empty sequence, "/web" is <<"web">> and "/web/" is *)
(* <<"web", "">>.  The Authorization header is [present, text, scheme,     *)
(* pad, token]: whether it is there, whether it is visible ASCII, the      *)
(* text before the token, whether blanks surround the token, the token.    *)
(***************************************************************************)
NoAuth ==
    [present |-> FALSE, text |-> TRUE, scheme |-> "", pad |-> FALSE, token |-> <<>>]

Bearer(token) == [NoAuth EXCEPT !.present = TRUE, !.scheme = "Bearer ", !.token = token]

Basic(token) == [NoAuth EXCEPT !.present = TRUE, !.scheme = "Basic ", !.token = token]

Guard(outcome, user_id, message) ==
    [outcome |-> outcome, user_id |-> user_id, message |-> message]

\* An allow-list matched on the first segment alone: "/web" and "/auth"
\* pass as well.
public_path_by_segment(path) ==
    \/ path = <<>>
    \/ (Len(path) >= 1 /\ path[1] = "web")
    \/ (Len(path) >= 1 /\ path[1] = "auth")

\* req.path() == "/" || starts_with("/web/") || starts_with("/auth/")
public_path(path) ==
    \/ path = <<>>
    \/ (Len(path) >= 2 /\ path[1] = "web")
    \/ (Len(path) >= 2 /\ path[1] = "auth")

\* A guard that takes whatever follows the first blank as the token.
bearer_token_any_scheme(auth) ==
    Ok(auth.token)

\* auth_value.strip_prefix("Bearer ") followed by trim()
bearer_token(auth) ==
    IF auth.scheme = "Bearer " THEN Ok(auth.token) ELSE Err("no prefix")

\* The guard up to and including its call of validate_jwt.
call_validate(method, path, auth) ==
    IF method = "OPTIONS" \/ public_path(path)
    THEN Guard("bypass", "Unknown", "")
    ELSE IF ~auth.present THEN Guard("rejected", "", "Missing authorization header")
    ELSE IF ~auth.text THEN Guard("rejected", "", "Invalid authorization header value")
    ELSE IF bearer_token(auth).kind # "Ok"
    THEN Guard("rejected", "", "Invalid authorization format")
    ELSE IF validate_jwt(bearer_token(auth).val).kind = "Panic"
    THEN Guard("panicked", "", "")
    ELSE IF validate_jwt(bearer_token(auth).val).kind # "Ok"
    THEN Guard("rejected", "", "Invalid token")
    ELSE Guard("validated", "", "")

\* A guard that reads the subject off the token it validated a moment ago,
\* without validating it again.
call_extract_unverified(token) ==
    Guard("authenticated", token[2].sub, "")

\* The rest of the guard: extract_user_id_from_jwt, which validates the
\* token once more, and the insertion into the request's extensions.
call_extract(token) ==
    LET user_id == extract_user_id_from_jwt(token)
    IN  IF user_id.kind = "Panic" THEN Guard("panicked", "", "")
        ELSE IF user_id.kind # "Ok" THEN Guard("rejected", "", "Invalid token")
        ELSE Guard("authenticated", user_id.val, "")

\* The whole guard, both validations within one second.
middleware_call(method, path, auth) ==
    LET checked == call_validate(method, path, auth)
    IN  IF checked.outcome = "validated"
        THEN call_extract(bearer_token(auth).val)
        ELSE checked

\* A response: the handler that produced it, its status and message, the
\* user id the handler worked with, and which credentials the request bore.
Response(handler, status, message, user, cred) ==
    [handler |-> handler, status |-> status, message |-> message,
     user |-> user, cred |-> cred]

NoResponse == Response("none", 0, "", "", "none")

NoRequestBody == [none |-> TRUE]

StoreIdle ==
    /\ users = {}
    /\ offers = {}
    /\ lastResp = NoResponse
    /\ lastReq = NoRequestBody
    /\ held = <<>>

NoRequest == [set |-> FALSE, method |-> "", path |-> <<>>, auth |-> NoAuth]
NoExtensions == [set |-> FALSE, user_id |-> ""]
NoReply == [set |-> FALSE, by |-> "", status |-> 0, body |-> ""]

GuardIdle ==
    /\ request = NoRequest
    /\ guardPc = "idle"
    /\ guardState = "None"
    /\ extensions = NoExtensions
    /\ serviceCalls = 0
    /\ guardReply = NoReply

RaceIdle == calls = <<>>

HostIdle ==
    /\ keyResult = NoResult
    /\ process = "none"
    /\ log = {}
    /\ namespace = ""
    /\ ops = <<>>

CipherIdle ==
    /\ blob = NoBlob
    /\ decInput = <<>>
    /\ decKind = "none"
    /\ decResult = NoResult
    /\ encLog = <<>>

InitCipher ==
    /\ envEncKey \in {EnvSet(s) : s \in CipherSecrets}
    /\ CipherIdle
    /\ HashIdle
    /\ StoreIdle
    /\ GuardIdle
    /\ RaceIdle
    /\ HostIdle
    /\ JwtIdle

\* A behaviour is one experiment: encryptions, then one decryption.
Encrypt(p, n) ==
    /\ decKind = "none"
    /\ blob' = [set |-> TRUE, plain |-> p, nonce |-> n,
                out |-> encrypt_with_random_nonce(FieldKey, p, n).val]
    /\ decInput' = <<>>
    /\ decKind' = "none"
    /\ decResult' = NoResult
    /\ UNCHANGED <<envEncKey, encLog, hashVars, jwtVars, storeVars, guardVars, raceVars, hostVars>>

Decrypt(kind, text) ==
    /\ decKind = "none"
    /\ decInput' = text
    /\ decKind' = kind
    /\ decResult' = decrypt_with_nonce(FieldKey, text)
    /\ UNCHANGED <<envEncKey, blob, encLog, hashVars, jwtVars, storeVars, guardVars, raceVars, hostVars>>

DecryptIntact ==
    /\ decKind = "none"
    /\ blob.set
    /\ Decrypt("intact", blob.out)

\* One character of the stored text replaced by any other symbol.
DecryptTamperedChar(pos, c) ==
    /\ decKind = "none"
    /\ blob.set
    /\ pos \in 1..Len(blob.out)
    /\ c # blob.out[pos]
    /\ Decrypt("char", Replace(blob.out, pos, c))

\* One byte of nonce, ciphertext or tag changed, the result encoded again.
DecryptTamperedByte(pos, d) ==
    /\ decKind = "none"
    /\ blob.set
    /\ LET combined == b64_decode(blob.out).val
       IN  /\ pos \in 1..Len(combined)
           /\ Decrypt("byte", b64_encode(
                  Replace(combined, pos, (combined[pos] + d) % 256)))

DecryptRaw(t) == Decrypt("raw", t)

\* Longest text an encryption of Plaintexts produces; byte changes tried.
BlobChars == 1..(4 * ((NonceLen + 3 + TagLen + 2) \div 3))
ByteDeltas == {1, 2, 16, 64, 128, 255}

Idle == decKind = "none"

NextCipher ==
    \/ Idle /\ \E p \in Plaintexts, n \in Nonces : Encrypt(p, n)
    \/ Idle /\ DecryptIntact
    \/ Idle /\ \E pos \in BlobChars, c \in 0..BadSym : DecryptTamperedChar(pos, c)
    \/ Idle /\ \E pos \in BlobChars, d \in ByteDeltas : DecryptTamperedByte(pos, d)
    \/ Idle /\ \E t \in RawInputs : DecryptRaw(t)

SpecCipher == InitCipher /\ [][NextCipher]_vars

(***************************************************************************)
(* Repeated encryption under one key: the calls made so far, in order.     *)
(***************************************************************************)
MaxEncCalls == 2

EncryptLogged(p, n) ==
    /\ Len(encLog) < MaxEncCalls
    /\ encLog' = Append(encLog,
                        [plain |-> p, nonce |-> n,
                         out |-> encrypt_with_random_nonce(FieldKey, p, n).val])
    /\ UNCHANGED <<envEncKey, blob, decInput, decKind, decResult, hashVars, jwtVars, storeVars, guardVars, raceVars, hostVars>>

NextNonce == \E p \in Plaintexts, n \in Nonces : EncryptLogged(p, n)

SpecNonce == InitCipher /\ [][NextNonce]_vars

(***************************************************************************)
(* Properties of the field cipher                                          *)
(***************************************************************************)
\* C1: decrypting, under the same key, what encrypt_with_random_nonce
\* returned succeeds and returns exactly the plaintext, whatever the nonce.
RoundTrip ==
    decKind = "intact" => decResult = Ok(blob.plain)

RoundTripWitness ==
    /\ decKind = "intact"
    /\ Len(blob.plain) >= 2
    /\ decResult = Ok(blob.plain)

\* C2: an EncryptedField with one character or one byte (of nonce,
\* ciphertext or tag) changed never decrypts: the call returns
\* DecryptionError, and no decryption of a stored or altered field returns a
\* plaintext other than the one encrypted.
TamperDetected ==
    /\ decKind \in {"char", "byte"} => decResult = Err("DecryptionError")
    /\ (decKind \in {"intact", "char", "byte"} /\ decResult.kind = "Ok")
           => decResult.val = blob.plain

TamperDetectedWitness ==
    /\ decKind = "byte"
    /\ decInput # blob.out
    /\ Len(decInput) = Len(blob.out)
    /\ b64_decode(decInput).kind = "Ok"
    /\ decResult = Err("DecryptionError")

\* C3: an input that decodes to fewer than 12 bytes makes decrypt_with_nonce
\* return DecryptionError to its caller (no panic, no plaintext).
ShortInputIsDecryptionError ==
    ( /\ decKind = "raw"
      /\ b64_decode(decInput).kind = "Ok"
      /\ Len(b64_decode(decInput).val) < NonceLen )
        => decResult = Err("DecryptionError")

InitHash ==
    /\ envEncKey = EnvSet(Secret32)
    /\ CipherIdle
    /\ HashIdle
    /\ StoreIdle
    /\ GuardIdle
    /\ RaceIdle
    /\ HostIdle
    /\ JwtIdle

Hash(w, salt) ==
    /\ hashRec' = [set |-> TRUE, password |-> w, salt |-> salt,
                   out |-> hash_random_salt(w, salt).val]
    /\ UNCHANGED <<verInput, verKind, verResult, cipherVars, jwtVars, storeVars, guardVars, raceVars, hostVars>>

Verify(kind, w, record) ==
    /\ verInput' = [password |-> w, record |-> record]
    /\ verKind' = kind
    /\ verResult' = verify_password(w, record)
    /\ UNCHANGED <<hashRec, cipherVars, jwtVars, storeVars, guardVars, raceVars, hostVars>>

VerifySame ==
    /\ hashRec.set
    /\ Verify("same", hashRec.password, hashRec.out)

VerifyOther(w2) ==
    /\ hashRec.set
    /\ w2 # hashRec.password
    /\ Verify("other", w2, hashRec.out)

VerifyStored(w, record) == Verify("stored", w, record)

VerIdle == verKind = "none"

NextHash ==
    \/ VerIdle /\ \E w \in Passwords, salt \in Salts : Hash(w, salt)
    \/ VerIdle /\ VerifySame
    \/ VerIdle /\ \E w2 \in Passwords : VerifyOther(w2)
    \/ VerIdle /\ \E w \in Passwords, r \in StoredRecords : VerifyStored(w, r)

SpecHash == InitHash /\ [][NextHash]_vars

(***************************************************************************)
(* Properties of the password hasher                                       *)
(***************************************************************************)
\* C5: verify_password accepts the password a record was made from, whatever
\* salt was drawn, and rejects every other password.
PasswordRoundTrip ==
    /\ verKind = "same" => verResult = Ok(<<>>)
    /\ verKind = "other" => verResult.kind = "Err"

PasswordRoundTripWitness ==
    /\ verKind = "other"
    /\ hashRec.set
    /\ verInput.record = hashRec.out
    /\ verInput.password # hashRec.password
    /\ verResult = Err("Password")

\* C6: every failure of verify_password reaches the caller as the same
\* outcome, whether the record could not be parsed or did not match.
VerifyFailuresUniform ==
    (verKind # "none" /\ verResult.kind # "Ok") => verResult = Err("Password")

(***************************************************************************)
(* Tokens: one token is issued, the clock advances, the token or an        *)
(* altered copy is validated at the current time.                          *)
(***************************************************************************)
InitJwt ==
    /\ envEncKey = EnvSet(Secret32)
    /\ CipherIdle
    /\ HashIdle
    /\ StoreIdle
    /\ GuardIdle
    /\ RaceIdle
    /\ HostIdle
    /\ envJwtSecret \in {EnvSet(k) : k \in JwtSecrets}
    /\ now = ClockStart
    /\ issued = NoToken
    /\ valInput = <<>>
    /\ valKind = "none"
    /\ valResult = NoResult
    /\ extResult = NoResult

\* skew: the seconds that pass between generate_jwt's two clock reads.
Issue(sub, skew) ==
    /\ ~issued.set
    /\ issued' = [set |-> TRUE, sub |-> sub, at |-> now,
                  token |-> generate_jwt(sub, now, now + skew).val]
    /\ now' = now + skew
    /\ UNCHANGED <<envJwtSecret, valInput, valKind, valResult, extResult,
                   cipherVars, hashVars, storeVars, guardVars, raceVars, hostVars>>

Tick(t) ==
    /\ t > now
    /\ now' = t
    /\ valInput' = <<>>
    /\ valKind' = "none"
    /\ valResult' = NoResult
    /\ extResult' = NoResult
    /\ UNCHANGED <<envJwtSecret, issued, cipherVars, hashVars, storeVars, guardVars, raceVars, hostVars>>

Validate(kind, token) ==
    /\ valInput' = token
    /\ valKind' = kind
    /\ valResult' = validate_jwt(token)
    /\ extResult' = extract_user_id_from_jwt(token)
    /\ UNCHANGED <<envJwtSecret, now, issued, cipherVars, hashVars, storeVars, guardVars, raceVars, hostVars>>

ValidateIssued ==
    /\ issued.set
    /\ Validate("intact", issued.token)

ValidateForged(token) ==
    /\ issued.set
    /\ token \in Forgeries(issued.token)
    /\ Validate("forged", token)

NextJwt ==
    \/ \E sub \in Subjects, skew \in {0, 1} : Issue(sub, skew)
    \/ \E t \in Instants : Tick(t)
    \/ ValidateIssued
    \/ issued.set /\ \E token \in Forgeries(issued.token) : ValidateForged(token)

SpecJwt == InitJwt /\ [][NextJwt]_vars

(***************************************************************************)
(* Properties of the token issuer                                          *)
(***************************************************************************)
TokenClaims == issued.token[2]

\* C7: validating a token right after it was issued for S succeeds with
\* subject S, through validate_jwt and through extract_user_id_from_jwt.
IssueThenValidate ==
    (valKind = "intact" /\ now = TokenClaims.iat)
        => /\ valResult.kind = "Ok"
           /\ valResult.val.sub = issued.sub
           /\ extResult = Ok(issued.sub)

IssueThenValidateWitness ==
    /\ valKind = "intact"
    /\ now = TokenClaims.iat
    /\ issued.sub = "u2"
    /\ extResult = Ok("u2")

\* C8 as stated: issued_at = t, expires_at = t + 24 h, and the token is
\* accepted exactly while now <= expires_at.
ExpiryExact ==
    issued.set =>
        /\ TokenClaims.exp = TokenClaims.iat + DaySeconds
        /\ valKind = "intact" => (valResult.kind = "Ok" <=> now <= TokenClaims.exp)

\* C8 as the code has it: expires_at is 24 h after the first clock read t,
\* issued_at is the second clock read (t or later), and the token is
\* accepted exactly while now <= expires_at + 60 s (the validation's default
\* leeway); later it fails with ExpiredSignature.
ExpiryWithLeeway ==
    issued.set =>
        /\ TokenClaims.exp = issued.at + DaySeconds
        /\ TokenClaims.iat >= issued.at
        /\ valKind = "intact" =>
              /\ valResult.kind = "Ok" <=> now <= TokenClaims.exp + Leeway
              /\ valResult.kind # "Ok" => valResult = Err("ExpiredSignature")

ExpiryWithLeewayWitness ==
    /\ valKind = "intact"
    /\ now = TokenClaims.exp + Leeway
    /\ valResult.kind = "Ok"

\* C9: a token whose signature does not verify under the configured secret
\* is rejected, and the rejection never comes from the expiry check: an
\* altered or foreign-signed token of sound shape fails with
\* InvalidSignature whether or not its expiry has passed.
SignatureBeforeExpiry ==
    valKind = "forged" =>
        /\ valResult.kind = "Err"
        /\ valResult.err # "ExpiredSignature"
        /\ (Len(valInput) = 3 /\ valInput[1] = Header("HS256"))
               => valResult.err = "InvalidSignature"

SignatureBeforeExpiryWitness ==
    /\ valKind = "forged"
    /\ Len(valInput) = 3
    /\ now > valInput[2].exp + Leeway
    /\ valResult = Err("InvalidSignature")

(***************************************************************************)
(* The offers table (database.rs).                                         *)
(***************************************************************************)
Thing(tb, id) == [tb |-> tb, id |-> id]

\* Id::to_string of the id part of a record id.  The store's code is not
\* part of the repository: either it prints the text as it is (plain), or
\* it prints a text that is not a bare identifier between brackets, and a
\* token subject ("users:" and a uuid) is not a bare identifier.
id_to_string(id, plain) == IF plain THEN id ELSE "<" \o id \o ">"

Some(v) == [some |-> TRUE, val |-> v]
NoText == [some |-> FALSE, val |-> ""]
NoPrice == [some |-> FALSE, val |-> 0]

OfferResult(result, listing) == [result |-> result, offers |-> listing]

\* Database::create_offer
db_create_offer(listing, game_title, platform, condition, price, description, seller_id, offer_id) ==
    LET offer == [id |-> offer_id, game_title |-> game_title,
                  platform |-> platform, condition |-> condition,
                  price |-> price, description |-> description,
                  seller_id |-> Thing("user", seller_id), created_at |-> now]
    IN  IF \E o \in listing : o.id = offer_id
        THEN OfferResult(Err("DatabaseError"), listing)
        ELSE OfferResult(Ok(offer), listing \cup {offer})

\* Database::get_offer_by_id: Ok(Some(offer)) or Ok(None)
db_get_offer_by_id(listing, offer_id, coerced) ==
    LET found == {o \in listing : where_id(o.id, offer_id, coerced)}
    IN  IF found = {} THEN Ok(NoText) ELSE Ok(Some(CHOOSE o \in found : TRUE))

\* Database::update_offer
db_update_offer(listing, offer_id, game_title, platform, condition, price, description, coerced) ==
    LET updated(o) ==
            [o EXCEPT
                !.game_title = IF game_title.some THEN game_title.val ELSE @,
                !.platform = IF platform.some THEN platform.val ELSE @,
                !.condition = IF condition.some THEN condition.val ELSE @,
                !.price = IF price.some THEN price.val ELSE @,
                !.description = IF description.some THEN description.val ELSE @]
        found == {o \in listing : where_id(o.id, offer_id, coerced)}
    IN  IF ~(game_title.some \/ platform.some \/ condition.some
               \/ price.some \/ description.some)
        THEN OfferResult(Err("DatabaseError: No fields to update"), listing)
        ELSE IF found = {}
        THEN OfferResult(Err("DatabaseError: Failed to update or retrieve offer"),
                         listing)
        ELSE OfferResult(Ok(updated(CHOOSE o \in found : TRUE)),
                         {IF where_id(o.id, offer_id, coerced) THEN updated(o) ELSE o
                              : o \in listing})

\* Database::delete_offer
db_delete_offer(listing, offer_id, coerced) ==
    OfferResult(Ok(<<>>), {o \in listing : ~where_id(o.id, offer_id, coerced)})

(***************************************************************************)
(* The request handlers (server.rs), each run behind the guard.  A         *)
(* handler yields the response, the tables it leaves and the token it      *)
(* hands out, if any.  cred is the Authorization header of the request,    *)
(* labelled with what it is.                                               *)
(***************************************************************************)
Effect(resp, table, listing, token) ==
    [resp |-> resp, users |-> table, offers |-> listing, token |-> token]

Crashed(handler, cred) == Response(handler, 0, "panic", "", cred.label)

\* RegisterRequest's, LoginRequest's, ... validate()
validate_register(req) ==
    /\ Len(req.firstname) >= 1
    /\ Len(req.lastname) >= 1
    /\ req.username # ""
    /\ Len(req.password) >= 8
    /\ is_email(req.email)

validate_login(req) == is_email(req.email) /\ Len(req.password) >= 8

validate_create_offer(req) ==
    /\ req.game_title # ""
    /\ req.platform # ""
    /\ req.condition # ""
    /\ req.price >= 0
    /\ req.description # ""

validate_update_offer(req) ==
    /\ req.game_title.some => req.game_title.val # ""
    /\ req.platform.some => req.platform.val # ""
    /\ req.condition.some => req.condition.val # ""
    /\ req.price.some => req.price.val >= 0
    /\ req.description.some => req.description.val # ""

\* POST /auth/register
register(cred, req, draw, t_exp, t_iat) ==
    LET guard == middleware_call("POST", <<"auth", "register">>, cred.header)
        reply(status, message, user) ==
            Response("register", status, message, user, cred.label)
        email == to_lowercase(req.email)
        registered == db_register(users, req.firstname, req.lastname,
                                  req.username, req.password, email, draw)
        user == authenticate_user(registered.users, email, req.password)
        token == generate_jwt(thing_to_string(user.val.id), t_exp, t_iat)
    IN  IF guard.outcome = "panicked"
        THEN Effect(Crashed("register", cred), users, offers, NoResult)
        ELSE IF guard.outcome = "rejected"
        THEN Effect(reply(401, guard.message, ""), users, offers, NoResult)
        ELSE IF ~validate_register(req)
        THEN Effect(reply(400, "validation", ""), users, offers, NoResult)
        ELSE IF registered.result.kind # "Ok"
        THEN Effect(reply(409, registered.result.err, ""), users, offers, NoResult)
        ELSE IF user.kind # "Ok"
        THEN Effect(reply(500, "Failed to log in after registration", ""),
                    registered.users, offers, NoResult)
        ELSE IF token.kind = "Panic"
        THEN Effect(Crashed("register", cred), registered.users, offers, NoResult)
        ELSE IF token.kind # "Ok"
        THEN Effect(reply(500, "JWT generation failed", ""),
                    registered.users, offers, NoResult)
        ELSE Effect(reply(201, "", thing_to_string(user.val.id)),
                    registered.users, offers, token)

\* POST /auth/login
login(cred, req, t_exp, t_iat) ==
    LET guard == middleware_call("POST", <<"auth", "login">>, cred.header)
        reply(status, message, user) ==
            Response("login", status, message, user, cred.label)
        user == authenticate_user(users, to_lowercase(req.email), req.password)
        token == generate_jwt(thing_to_string(user.val.id), t_exp, t_iat)
    IN  IF guard.outcome = "panicked"
        THEN Effect(Crashed("login", cred), users, offers, NoResult)
        ELSE IF guard.outcome = "rejected"
        THEN Effect(reply(401, guard.message, ""), users, offers, NoResult)
        ELSE IF ~validate_login(req)
        THEN Effect(reply(400, "validation", ""), users, offers, NoResult)
        ELSE IF user.kind # "Ok"
        THEN IF user.err = "InvalidPassword"
             THEN Effect(reply(200, "Invalid password", ""), users, offers, NoResult)
             ELSE IF user.err = "UserNotFound"
             THEN Effect(reply(200, "User not found", ""), users, offers, NoResult)
             ELSE Effect(reply(500, "An internal error occurred", ""),
                         users, offers, NoResult)
        ELSE IF token.kind = "Panic"
        THEN Effect(Crashed("login", cred), users, offers, NoResult)
        ELSE IF token.kind # "Ok"
        THEN Effect(reply(500, "Failed to generate token", ""),
                    users, offers, NoResult)
        ELSE Effect(reply(200, "", thing_to_string(user.val.id)),
                    users, offers, token)

\* POST /api/change_username
change_username(cred, req, coerced) ==
    LET guard == middleware_call("POST", <<"api", "change_username">>, cred.header)
        reply(status, message, user) ==
            Response("change_username", status, message, user, cred.label)
        changed == db_change_username(users, guard.user_id, req.username, coerced)
    IN  IF guard.outcome = "panicked"
        THEN Effect(Crashed("change_username", cred), users, offers, NoResult)
        ELSE IF guard.outcome = "rejected"
        THEN Effect(reply(401, guard.message, ""), users, offers, NoResult)
        ELSE IF req.username = ""
        THEN Effect(reply(400, "validation", guard.user_id), users, offers, NoResult)
        ELSE IF changed.result.kind # "Ok"
        THEN Effect(reply(500, "Failed to change username", guard.user_id),
                    users, offers, NoResult)
        ELSE Effect(reply(200, "Successfully changed username", guard.user_id),
                    changed.users, offers, NoResult)

\* POST /api/change_password
change_password(cred, req, salt, coerced) ==
    LET guard == middleware_call("POST", <<"api", "change_password">>, cred.header)
        reply(status, message, user) ==
            Response("change_password", status, message, user, cred.label)
        changed == db_change_password(users, guard.user_id, req.password, salt, coerced)
    IN  IF guard.outcome = "panicked"
        THEN Effect(Crashed("change_password", cred), users, offers, NoResult)
        ELSE IF guard.outcome = "rejected"
        THEN Effect(reply(401, guard.message, ""), users, offers, NoResult)
        ELSE IF Len(req.password) < 8
        THEN Effect(reply(400, "validation", guard.user_id), users, offers, NoResult)
        ELSE IF changed.result.kind # "Ok"
        THEN Effect(reply(500, "Failed to change password", guard.user_id),
                    users, offers, NoResult)
        ELSE Effect(reply(200, "Successfully changed password", guard.user_id),
                    changed.users, offers, NoResult)

\* POST /api/offers
create_offer(cred, req, offer_id) ==
    LET guard == middleware_call("POST", <<"api", "offers">>, cred.header)
        seller_id == guard.user_id
        reply(status, message, user) ==
            Response("create_offer", status, message, user, cred.label)
        created == db_create_offer(offers, req.game_title, req.platform,
                                   req.condition, req.price, req.description,
                                   seller_id, offer_id)
    IN  IF guard.outcome = "panicked"
        THEN Effect(Crashed("create_offer", cred), users, offers, NoResult)
        ELSE IF guard.outcome = "rejected"
        THEN Effect(reply(401, guard.message, ""), users, offers, NoResult)
        ELSE IF ~validate_create_offer(req)
        THEN Effect(reply(400, "validation", seller_id), users, offers, NoResult)
        ELSE IF seller_id = "Unknown"
        THEN Effect(reply(401, "Authentication required", seller_id),
                    users, offers, NoResult)
        ELSE IF created.result.kind # "Ok"
        THEN Effect(reply(500, "Failed to create offer", seller_id),
                    users, offers, NoResult)
        ELSE Effect(reply(201, "Offer created successfully", seller_id),
                    users, created.offers, NoResult)

\* GET /api/offers/{id}
get_offer_by_id(cred, offer_id, coerced) ==
    LET guard == middleware_call("GET", <<"api", "offers", offer_id>>, cred.header)
        reply(status, message, user) ==
            Response("get_offer_by_id", status, message, user, cred.label)
        offer == db_get_offer_by_id(offers, offer_id, coerced)
    IN  IF guard.outcome = "panicked"
        THEN Effect(Crashed("get_offer_by_id", cred), users, offers, NoResult)
        ELSE IF guard.outcome = "rejected"
        THEN Effect(reply(401, guard.message, ""), users, offers, NoResult)
        ELSE IF offer.kind # "Ok"
        THEN Effect(reply(500, "Failed to retrieve offer", guard.user_id),
                    users, offers, NoResult)
        ELSE IF ~offer.val.some
        THEN Effect(reply(404, "Offer not found", guard.user_id),
                    users, offers, NoResult)
        ELSE Effect(reply(200, "", guard.user_id), users, offers, NoResult)

\* PUT /api/offers/{id}
update_offer(cred, offer_id, req, coerced, plain) ==
    LET guard == middleware_call("PUT", <<"api", "offers", offer_id>>, cred.header)
        user_id_from_token == guard.user_id
        reply(status, message, user) ==
            Response("update_offer", status, message, user, cred.label)
        existing_offer == db_get_offer_by_id(offers, offer_id, coerced)
        updated == db_update_offer(offers, offer_id, req.game_title, req.platform,
                                   req.condition, req.price, req.description,
                                   coerced)
    IN  IF guard.outcome = "panicked"
        THEN Effect(Crashed("update_offer", cred), users, offers, NoResult)
        ELSE IF guard.outcome = "rejected"
        THEN Effect(reply(401, guard.message, ""), users, offers, NoResult)
        ELSE IF ~validate_update_offer(req)
        THEN Effect(reply(400, "validation", user_id_from_token),
                    users, offers, NoResult)
        ELSE IF user_id_from_token = "Unknown"
        THEN Effect(reply(401, "Authentication required", user_id_from_token),
                    users, offers, NoResult)
        ELSE IF existing_offer.kind # "Ok"
        THEN Effect(reply(500, "Failed to verify offer ownership", user_id_from_token),
                    users, offers, NoResult)
        ELSE IF ~existing_offer.val.some
        THEN Effect(reply(404, "Offer not found", user_id_from_token),
                    users, offers, NoResult)
        ELSE IF id_to_string(existing_offer.val.val.seller_id.id, plain) # user_id_from_token
        THEN Effect(reply(403, "You are not authorized to update this offer",
                          user_id_from_token), users, offers, NoResult)
        ELSE IF updated.result.kind # "Ok"
        THEN Effect(reply(500, "Failed to update offer", user_id_from_token),
                    users, offers, NoResult)
        ELSE Effect(reply(200, "Offer updated successfully", user_id_from_token),
                    users, updated.offers, NoResult)

\* DELETE /api/offers/{id}
delete_offer(cred, offer_id, coerced, plain) ==
    LET guard == middleware_call("DELETE", <<"api", "offers", offer_id>>, cred.header)
        user_id_from_token == guard.user_id
        reply(status, message, user) ==
            Response("delete_offer", status, message, user, cred.label)
        existing_offer == db_get_offer_by_id(offers, offer_id, coerced)
        deleted == db_delete_offer(offers, offer_id, coerced)
    IN  IF guard.outcome = "panicked"
        THEN Effect(Crashed("delete_offer", cred), users, offers, NoResult)
        ELSE IF guard.outcome = "rejected"
        THEN Effect(reply(401, guard.message, ""), users, offers, NoResult)
        ELSE IF user_id_from_token = "Unknown"
        THEN Effect(reply(401, "Authentication required", user_id_from_token),
                    users, offers, NoResult)
        ELSE IF existing_offer.kind # "Ok"
        THEN Effect(reply(500, "Failed to verify offer ownership", user_id_from_token),
                    users, offers, NoResult)
        ELSE IF ~existing_offer.val.some
        THEN Effect(reply(404, "Offer not found", user_id_from_token),
                    users, offers, NoResult)
        ELSE IF id_to_string(existing_offer.val.val.seller_id.id, plain) # user_id_from_token
        THEN Effect(reply(403, "You are not authorized to delete this offer",
                          user_id_from_token), users, offers, NoResult)
        ELSE IF deleted.result.kind # "Ok"
        THEN Effect(reply(500, "Failed to delete offer", user_id_from_token),
                    users, offers, NoResult)
        ELSE Effect(reply(200, "Offer deleted successfully", user_id_from_token),
                    users, deleted.offers, NoResult)

(***************************************************************************)
(* The running server: requests arrive one at a time and the clock moves   *)
(* between them.  The client under observation keeps one of the tokens     *)
(* the server handed out (issued) and presents it, or other credentials,   *)
(* on later requests.                                                      *)
(***************************************************************************)
UserIds == {"u1", "u2"}
OfferIds == {"o1"}
OfferPaths == {"o1", "o2"}

\* "a@b", "A@b", "c@d", "ab"
Emails == {<<97, 64, 98>>, <<65, 64, 98>>, <<99, 64, 100>>, <<97, 98>>}

\* "pw1", too short for every request
ShortPassword == <<112, 119, 49>>

ServerNonce == [i \in 1..NonceLen |-> i]

\* "a@b", "A@b", "c@d"
ValidEmails == {e \in Emails : is_email(e)}

RegisterRequest(firstname, lastname, username, password, email) ==
    [firstname |-> firstname, lastname |-> lastname, username |-> username,
     password |-> password, email |-> email]

\* The well-formed requests, and one request for each field that can be
\* ill-formed.
RegisterRequests ==
    {RegisterRequest(<<65>>, <<66>>, "ann", Password1, e) : e \in ValidEmails}
    \cup {RegisterRequest(<<>>, <<66>>, "ann", Password1, <<97, 64, 98>>),
          RegisterRequest(<<65>>, <<66>>, "", Password1, <<97, 64, 98>>),
          RegisterRequest(<<65>>, <<66>>, "ann", ShortPassword, <<97, 64, 98>>),
          RegisterRequest(<<65>>, <<66>>, "ann", Password1, <<97, 98>>)}

RegisterDraws ==
    {Draws(uuid, ServerNonce, ServerNonce, ServerNonce, 11) : uuid \in UserIds}

LoginRequests ==
    [email : ValidEmails, password : {Password1, Password2}]
    \cup {[email |-> <<97, 64, 98>>, password |-> ShortPassword],
          [email |-> <<97, 98>>, password |-> Password1]}

ChangeUsernameRequests == [username : {"bob", ""}]

ChangePasswordRequests == [password : {Password2, ShortPassword}]

CreateOfferRequests ==
    [game_title : {"t1"}, platform : {"pc"}, condition : {"new"},
     price : {10, -1}, description : {"d"}]

UpdateOfferRequests ==
    [game_title : {NoText, Some("t2")}, platform : {NoText},
     condition : {NoText}, price : {NoPrice, Some(-1)}, description : {NoText}]

Cred(label, header) == [label |-> label, header |-> header]

\* The client presents the token it holds, if it holds one.
Creds ==
    IF issued.set THEN {Cred("held", Bearer(issued.token))}
    ELSE {Cred("none", NoAuth)}

\* The moments at which requests arrive: the start, and the last second of
\* a token issued at the start.
Clock == {ClockStart, ClockStart + DaySeconds}

Init ==
    /\ envEncKey = EnvSet(Secret32)
    /\ envJwtSecret = EnvSet("secret")
    /\ now = ClockStart
    /\ issued = NoToken
    /\ valInput = <<>>
    /\ valKind = "none"
    /\ valResult = NoResult
    /\ extResult = NoResult
    /\ blob = NoBlob
    /\ decInput = <<>>
    /\ decKind = "none"
    /\ decResult = NoResult
    /\ encLog = <<>>
    /\ HashIdle
    /\ StoreIdle
    /\ GuardIdle
    /\ RaceIdle
    /\ HostIdle

\* The server answers a request; a client that holds no token may keep the
\* one it is handed, and then holds on to it.
Serve(effect, req, take) ==
    /\ lastResp' = effect.resp
    /\ lastReq' = req
    /\ users' = effect.users
    /\ offers' = effect.offers
    /\ IF effect.token.kind = "Ok" /\ take
       THEN /\ issued' = [set |-> TRUE, sub |-> effect.resp.user, at |-> now,
                          token |-> effect.token.val]
            /\ held' = (CHOOSE u \in effect.users :
                             thing_to_string(u.id) = effect.resp.user).password_hash
       ELSE UNCHANGED <<issued, held>>
    /\ UNCHANGED <<envJwtSecret, valInput, valKind, valResult, extResult,
                   cipherVars, hashVars, guardVars, raceVars, hostVars>>

\* Both clock reads of generate_jwt fall in the second the request is served.
Register(cred, req, draw, take) ==
    /\ take => ~issued.set
    /\ UNCHANGED now
    /\ Serve(register(cred, req, draw, now, now), req, take)

Login(cred, req, take) ==
    /\ take => ~issued.set
    /\ UNCHANGED now
    /\ Serve(login(cred, req, now, now), req, take)

ChangeUsername(cred, req, coerced) ==
    /\ UNCHANGED now
    /\ Serve(change_username(cred, req, coerced), req, FALSE)

ChangePassword(cred, req, salt, coerced) ==
    /\ UNCHANGED now
    /\ Serve(change_password(cred, req, salt, coerced), req, FALSE)

CreateOffer(cred, req, offer_id) ==
    /\ UNCHANGED now
    /\ Serve(create_offer(cred, req, offer_id), req, FALSE)

GetOfferById(cred, offer_id, coerced) ==
    /\ UNCHANGED now
    /\ Serve(get_offer_by_id(cred, offer_id, coerced), [offer_id |-> offer_id], FALSE)

UpdateOffer(cred, offer_id, req, coerced, plain) ==
    /\ UNCHANGED now
    /\ Serve(update_offer(cred, offer_id, req, coerced, plain),
             [offer_id |-> offer_id, body |-> req], FALSE)

DeleteOffer(cred, offer_id, coerced, plain) ==
    /\ UNCHANGED now
    /\ Serve(delete_offer(cred, offer_id, coerced, plain), [offer_id |-> offer_id], FALSE)

\* Time passes between requests.
Elapse(t) ==
    /\ t > now
    /\ now' = t
    /\ lastResp' = NoResponse
    /\ lastReq' = NoRequestBody
    /\ UNCHANGED <<users, offers, held, issued, envJwtSecret, valInput, valKind,
                   valResult, extResult, cipherVars, hashVars, guardVars, raceVars, hostVars>>

Next ==
    \/ \E cred \in Creds, req \in RegisterRequests, draw \in RegisterDraws,
          take \in BOOLEAN :
           Register(cred, req, draw, take)
    \/ \E cred \in Creds, req \in LoginRequests, take \in BOOLEAN :
           Login(cred, req, take)
    \/ \E cred \in Creds, req \in ChangeUsernameRequests, coerced \in BOOLEAN :
           ChangeUsername(cred, req, coerced)
    \/ \E cred \in Creds, req \in ChangePasswordRequests, coerced \in BOOLEAN :
           ChangePassword(cred, req, 12, coerced)
    \/ \E cred \in Creds, req \in CreateOfferRequests, offer_id \in OfferIds :
           CreateOffer(cred, req, offer_id)
    \/ \E cred \in Creds, offer_id \in OfferPaths, coerced \in BOOLEAN :
           GetOfferById(cred, offer_id, coerced)
    \/ \E cred \in Creds, offer_id \in OfferPaths, req \in UpdateOfferRequests,
          coerced \in BOOLEAN, plain \in BOOLEAN :
           UpdateOffer(cred, offer_id, req, coerced, plain)
    \/ \E cred \in Creds, offer_id \in OfferPaths, coerced \in BOOLEAN,
          plain \in BOOLEAN :
           DeleteOffer(cred, offer_id, coerced, plain)
    \/ \E t \in Clock : Elapse(t)

Spec == Init /\ [][Next]_vars

\* The held token validates, for the user it was issued to, at every
\* moment up to its expiry, and a guarded request that presents it is
\* served as that user.
TokenOutlivesChanges ==
    (issued.set /\ now <= issued.token[2].exp) =>
        /\ validate_jwt(issued.token).kind = "Ok"
        /\ validate_jwt(issued.token).val.sub = issued.sub
        /\ (lastResp.cred = "held" /\ lastResp.handler \notin {"register", "login"})
               => (lastResp.status # 401 /\ lastResp.user = issued.sub)

\* A request that leaves the token, the signing secret and the clock alone
\* leaves the outcome of validating the token alone, whatever it does to
\* the identity store and the offers.
ValidationIgnoresStore ==
    (issued.set /\ issued' = issued /\ now' = now /\ envJwtSecret' = envJwtSecret)
        => validate_jwt(issued.token)' = validate_jwt(issued.token)

\* C10: there is no revocation.  A token the server handed out keeps
\* validating with the same subject at every moment up to its expiry,
\* whatever requests the server has answered in between (password and
\* username changes, further logins and registrations, offer operations);
\* the outcome of validation depends on the token, the signing secret and
\* the clock only, never on the identity store.
NoRevocation == []TokenOutlivesChanges /\ [][ValidationIgnoresStore]_vars

\* The token's user has changed the password since the token was issued,
\* other users and offers have come and gone, the token's last second has
\* come, and the guard still lets the token through.
NoRevocationWitness ==
    /\ issued.set
    /\ now = issued.token[2].exp
    /\ \E u \in users :
           /\ thing_to_string(u.id) = issued.sub
           /\ u.password_hash # held
           /\ u.username = "bob"
    /\ Cardinality(users) = 2
    /\ offers # {}
    /\ lastResp.cred = "held"
    /\ lastResp.handler = "change_password"
    /\ lastResp.status = 200
    /\ lastResp.user = issued.sub


(***************************************************************************)
(* The request guard (middleware.rs): one request passes through           *)
(* AuthenticationMiddleware::call.  The guard validates the token, then    *)
(* extracts the subject, which validates it once more; the clock may       *)
(* advance in between.  The wrapped service then answers.                  *)
(***************************************************************************)
Methods == {"GET", "POST", "PUT", "DELETE", "OPTIONS"}

\* "/", "/web/", "/web/index.html", "/auth/login" and "/auth/register"
AllowListed ==
    {<<>>, <<"web", "">>, <<"web", "index.html">>,
     <<"auth", "login">>, <<"auth", "register">>}

\* "/web", "/auth", "/authx/y", "/test", "/api/offers", "/api/web/x"
Guarded ==
    {<<"web">>, <<"auth">>, <<"authx", "y">>, <<"test">>,
     <<"api", "offers">>, <<"api", "web", "x">>}

Paths == AllowListed \cup Guarded

\* The token a login under JWT_SECRET "secret" at ClockStart hands out.
GuardToken(sub) ==
    encode(Header("HS256"), Claims(sub, ClockStart + DaySeconds, ClockStart), "secret")

Headers ==
    {NoAuth,
     [Bearer(GuardToken("u1")) EXCEPT !.text = FALSE],
     Basic(GuardToken("u1")),
     [Bearer(GuardToken("u1")) EXCEPT !.scheme = "bearer "],
     [Bearer(GuardToken("u1")) EXCEPT !.scheme = ""],
     [Bearer(GuardToken("u1")) EXCEPT !.pad = TRUE]}
    \cup {Bearer(GuardToken(sub)) : sub \in Subjects}
    \cup {Bearer(token) : token \in Forgeries(GuardToken("u1"))}

\* The instants at which the guard reads the clock: while the token is
\* fresh, in its last second of leeway, and after it.
GuardInstants ==
    {ClockStart + 1, ClockStart + DaySeconds + Leeway,
     ClockStart + DaySeconds + Leeway + 1}

\* What a guard outcome does to the request: a guard that answers with
\* 401 and still hands the request to the wrapped service.
settle_falling_through(g) ==
    [pc |-> IF g.outcome \in {"bypass", "authenticated", "rejected"} THEN "service"
            ELSE IF g.outcome = "panicked" THEN "panicked"
            ELSE "extract",
     state |-> IF g.outcome = "bypass" THEN "Bypassed"
               ELSE IF g.outcome = "authenticated" THEN "Authenticated"
               ELSE IF g.outcome = "rejected" THEN "Rejected"
               ELSE "Unauthenticated",
     invoked |-> IF g.outcome \in {"bypass", "authenticated", "rejected"} THEN 1 ELSE 0,
     extensions |-> IF g.outcome = "authenticated"
                    THEN [set |-> TRUE, user_id |-> g.user_id]
                    ELSE NoExtensions,
     reply |-> IF g.outcome = "rejected"
               THEN [set |-> TRUE, by |-> "guard", status |-> 401, body |-> g.message]
               ELSE NoReply]

\* What a guard outcome does to the request: Box::pin(async { Err(
\* ErrorUnauthorized(..)) }) answers in the guard, self.service.call(req)
\* hands the request on, extensions_mut().insert(user_id) comes before it.
settle(g) ==
    [pc |-> IF g.outcome \in {"bypass", "authenticated"} THEN "service"
            ELSE IF g.outcome = "rejected" THEN "done"
            ELSE IF g.outcome = "panicked" THEN "panicked"
            ELSE "extract",
     state |-> IF g.outcome = "bypass" THEN "Bypassed"
               ELSE IF g.outcome = "authenticated" THEN "Authenticated"
               ELSE IF g.outcome = "rejected" THEN "Rejected"
               ELSE "Unauthenticated",
     invoked |-> IF g.outcome \in {"bypass", "authenticated"} THEN 1 ELSE 0,
     extensions |-> IF g.outcome = "authenticated"
                    THEN [set |-> TRUE, user_id |-> g.user_id]
                    ELSE NoExtensions,
     reply |-> IF g.outcome = "rejected"
               THEN [set |-> TRUE, by |-> "guard", status |-> 401, body |-> g.message]
               ELSE NoReply]

InitGuard ==
    /\ envEncKey = EnvSet(Secret32)
    /\ CipherIdle
    /\ HashIdle
    /\ StoreIdle
    /\ GuardIdle
    /\ RaceIdle
    /\ HostIdle
    /\ envJwtSecret \in {EnvSet("secret"), EnvAbsent}
    /\ now \in GuardInstants
    /\ issued = NoToken
    /\ valInput = <<>>
    /\ valKind = "none"
    /\ valResult = NoResult
    /\ extResult = NoResult

\* A request arrives at the guard.
Receive(method, path, auth) ==
    /\ guardPc = "idle"
    /\ request' = [set |-> TRUE, method |-> method, path |-> path, auth |-> auth]
    /\ guardPc' = "check"
    /\ guardState' = "Unauthenticated"
    /\ UNCHANGED <<extensions, serviceCalls, guardReply,
                   jwtVars, cipherVars, hashVars, storeVars, raceVars, hostVars>>

Settle(g) ==
    /\ guardPc' = settle(g).pc
    /\ guardState' = settle(g).state
    /\ serviceCalls' = serviceCalls + settle(g).invoked
    /\ extensions' = settle(g).extensions
    /\ guardReply' = settle(g).reply
    /\ UNCHANGED <<request, jwtVars, cipherVars, hashVars, storeVars, raceVars, hostVars>>

\* The guard from its entry up to and including validate_jwt.
Check ==
    /\ guardPc = "check"
    /\ Settle(call_validate(request.method, request.path, request.auth))

\* The guard from extract_user_id_from_jwt to the call of the service.
Extract ==
    /\ guardPc = "extract"
    /\ Settle(call_extract(bearer_token(request.auth).val))

\* The wrapped service answers the request it was handed.
Respond(status) ==
    /\ guardPc = "service"
    /\ guardPc' = "done"
    /\ guardReply' = [set |-> TRUE, by |-> "service", status |-> status, body |-> ""]
    /\ UNCHANGED <<request, guardState, extensions, serviceCalls,
                   jwtVars, cipherVars, hashVars, storeVars, raceVars, hostVars>>

\* Time passes while the request is in the guard.
GuardTick(t) ==
    /\ guardPc \in {"check", "extract"}
    /\ t > now
    /\ now' = t
    /\ UNCHANGED <<envJwtSecret, issued, valInput, valKind, valResult, extResult,
                   guardVars, cipherVars, hashVars, storeVars, raceVars, hostVars>>

NextGuard ==
    \/ \E method \in Methods, path \in Paths, auth \in Headers :
           Receive(method, path, auth)
    \/ Check
    \/ Extract
    \/ \E status \in {200, 404} : Respond(status)
    \/ \E t \in GuardInstants : GuardTick(t)

SpecGuard == InitGuard /\ [][NextGuard]_vars

(***************************************************************************)
(* Properties of the request guard                                         *)
(***************************************************************************)
\* The header reads "Bearer <token>".
BearerForm(auth) == auth.present /\ auth.text /\ auth.scheme = "Bearer "

\* The guard hands the request to the wrapped service in this step.
LetThrough == serviceCalls' > serviceCalls

\* The guard disposes of the request in this step.
GuardDecides == guardPc \in {"check", "extract"} /\ guardPc' \notin {guardPc, "extract"}

\* The header is missing or not of the bearer form, or validate_jwt returns
\* an error for its token at the time of this step.
FailsRequirement ==
    \/ ~BearerForm(request.auth)
    \/ validate_jwt(request.auth.token).kind = "Err"

BearerOrRejected ==
    /\ LetThrough =>
           /\ BearerForm(request.auth)
           /\ validate_jwt(request.auth.token).kind = "Ok"
    /\ (GuardDecides /\ FailsRequirement) =>
           /\ guardState' = "Rejected"
           /\ guardReply'.set
           /\ guardReply'.by = "guard"
           /\ guardReply'.status = 401
           /\ serviceCalls' = 0

\* C11 as stated: for every request whose path is not on the public
\* allow-list, whatever its HTTP method, the guard lets it through only if
\* its header reads "Bearer <token>" and the token passes validate_jwt; a
\* missing header, another scheme or a token failing validate_jwt ends the
\* request in Rejected.
BearerRequiredWhateverMethod ==
    [][request.path \in Guarded => BearerOrRejected]_vars

\* C11: for every request whose method is not OPTIONS and whose path is not
\* on the public allow-list, the guard lets it through only if its header
\* reads "Bearer <token>" and the token passes validate_jwt; a missing
\* header, another scheme or a token that validate_jwt turns down ends the
\* request in Rejected, answered with 401 by the guard, the wrapped service
\* not invoked.
BearerRequiredUnlessOptions ==
    [][(request.path \in Guarded /\ request.method # "OPTIONS") => BearerOrRejected]_vars

\* A DELETE outside the allow-list went through on a valid bearer token
\* written with blanks around it, and the service has answered.
BearerRequiredWitness ==
    /\ request.method = "DELETE"
    /\ request.path = <<"api", "offers">>
    /\ request.auth = [Bearer(GuardToken("u1")) EXCEPT !.pad = TRUE]
    /\ guardState = "Authenticated"
    /\ serviceCalls = 1
    /\ guardReply.by = "service"


\* C12: the Rejected outcome is uniform: whatever header the rejected
\* request bore, the response is the one any other rejected header would
\* have drawn for the same method and path, same status and same body.
RejectedUniform ==
    guardState = "Rejected" =>
        \A auth \in Headers :
            LET other == middleware_call(request.method, request.path, auth)
            IN  other.outcome = "rejected" =>
                    guardReply = [set |-> TRUE, by |-> "guard", status |-> 401,
                                  body |-> other.message]


Terminal == {"Authenticated", "Rejected", "Bypassed"}

\* What holds of the request at every moment.
OneOutcome ==
    /\ guardPc = "check" =>
           /\ guardState = "Unauthenticated"
           /\ serviceCalls = 0
           /\ ~guardReply.set
    /\ guardPc \in {"service", "done"} =>
           /\ guardState \in Terminal
           /\ serviceCalls <= 1
           /\ (guardState = "Rejected") <=> (serviceCalls = 0)
           /\ (guardState = "Rejected") <=> (guardReply.set /\ guardReply.by = "guard")
           /\ (guardState = "Authenticated") <=> extensions.set
    /\ guardState = "Rejected" => guardPc = "done"

\* What holds of every step.
OutcomeKept ==
    /\ (guardState = "None" /\ guardState' # "None") => guardState' = "Unauthenticated"
    /\ guardState \in Terminal => guardState' = guardState
    /\ guardState = "Rejected" => (serviceCalls' = 0 /\ guardReply' = guardReply)

ServedBehindGuard == serviceCalls > 0 /\ guardState # "Bypassed"

SubjectOfPresentedToken ==
    ServedBehindGuard =>
        /\ extensions.set
        /\ BearerForm(request.auth)
        /\ Len(request.auth.token) = 3
        /\ extensions.user_id = request.auth.token[2].sub
        /\ request.auth.token[1].alg = "HS256"
        /\ request.auth.token[3] =
               hmac(envJwtSecret.val, request.auth.token[1], request.auth.token[2])

PresentedTokenValidated ==
    (LetThrough /\ guardState' # "Bypassed") =>
        /\ validate_jwt(request.auth.token).kind = "Ok"
        /\ extensions'.user_id = validate_jwt(request.auth.token).val.sub

\* C14: whenever the wrapped service is invoked for a request that was not
\* bypassed, the request's extensions hold a subject identifier, it is the
\* sub claim of the token in the request's Authorization header, and that
\* token passed validate_jwt at the moment the request was handed on.
SubjectAttached == []SubjectOfPresentedToken /\ [][PresentedTokenValidated]_vars

\* The second user's token took a POST through the guard in the last second
\* of its leeway; the service sees "u2" in the extensions.
SubjectAttachedWitness ==
    /\ request.method = "POST"
    /\ request.path = <<"api", "offers">>
    /\ request.auth = Bearer(GuardToken("u2"))
    /\ now = ClockStart + DaySeconds + Leeway
    /\ guardState = "Authenticated"
    /\ serviceCalls = 1
    /\ extensions = [set |-> TRUE, user_id |-> "u2"]
    /\ guardPc = "service"


\* The guard has looked at the request.
Examined == guardPc \notin {"idle", "check"}

\* C15 as stated: the guard bypasses validation exactly for the requests
\* whose path is on the allow-list ("/", below "/web/", below "/auth/"):
\* such a request reaches the wrapped service whatever its Authorization
\* header, and no request outside the list is bypassed.
BypassExactlyAllowList ==
    Examined =>
        /\ (guardState = "Bypassed") <=> (request.path \in AllowListed)
        /\ guardState = "Bypassed" => (serviceCalls = 1 /\ ~extensions.set)

\* C15: the guard bypasses validation exactly for the requests whose method
\* is OPTIONS or whose path is on the allow-list ("/", below "/web/", below
\* "/auth/"): such a request reaches the wrapped service whatever its
\* Authorization header, and no other request is bypassed.
BypassExactlyAllowListOrOptions ==
    Examined =>
        /\ (guardState = "Bypassed") <=>
               (request.method = "OPTIONS" \/ request.path \in AllowListed)
        /\ guardState = "Bypassed" => (serviceCalls = 1 /\ ~extensions.set)

\* A POST to /auth/login bearing a token signed by somebody else reached
\* the wrapped service.
BypassWitness ==
    /\ request.method = "POST"
    /\ request.path = <<"auth", "login">>
    /\ request.auth = Bearer(<<Header("HS256"), GuardToken("u1")[2],
                               hmac(OtherSecret, Header("HS256"), GuardToken("u1")[2])>>)
    /\ guardState = "Bypassed"
    /\ serviceCalls = 1
    /\ guardReply.by = "service"


(***************************************************************************)
(* Properties of registration and login                                    *)
(***************************************************************************)
\* An identity is stored for the email, whatever its letter case.
Known(email) == \E u \in users : u.email_hash = sha256_hex(to_lowercase(email))

\* C16: a login attempt with an unknown email and a login attempt with a
\* known email and a wrong password are answered alike, same status and
\* same body, so the answer does not tell whether the email is registered.
LoginFailuresUniform ==
    \A cred \in Creds, unknown \in LoginRequests, wrong \in LoginRequests :
        (/\ validate_login(unknown)
         /\ validate_login(wrong)
         /\ ~Known(unknown.email)
         /\ Known(wrong.email)
         /\ authenticate_user(users, to_lowercase(wrong.email), wrong.password).kind # "Ok")
        => LET a == login(cred, unknown, now, now).resp
               b == login(cred, wrong, now, now).resp
           IN  a.status = b.status /\ a.message = b.message


\* The last request was a well-formed login that got past the guard.
LoginServed ==
    /\ lastResp.handler = "login"
    /\ lastResp.status \notin {0, 400, 401}

\* C17: once an identity is stored for email E with password W, a login
\* with E in any letter case and W succeeds: the answer is 200 and carries
\* a token that validates and whose subject is the id of the identity
\* stored for E.
LoginAfterRegistration ==
    LoginServed =>
        \A u \in users :
            (/\ u.email_hash = sha256_hex(to_lowercase(lastReq.email))
             /\ verify_password(lastReq.password, u.password_hash).kind = "Ok")
            => /\ lastResp.status = 200
               /\ lastResp.message = ""
               /\ lastResp.user = thing_to_string(u.id)
               /\ \A cred \in Creds :
                      LET token == login(cred, lastReq, now, now).token
                      IN  /\ token.kind = "Ok"
                          /\ validate_jwt(token.val).kind = "Ok"
                          /\ extract_user_id_from_jwt(token.val) = Ok(thing_to_string(u.id))

\* Two identities are stored, "a@b" registered second; a login with "A@b"
\* and the registration password was answered with the second identity's
\* token, which the client keeps.
LoginAfterRegistrationWitness ==
    /\ LoginServed
    /\ lastReq = [email |-> <<65, 64, 98>>, password |-> Password1]
    /\ Cardinality(users) = 2
    /\ \E u \in users :
           /\ u.email_hash = sha256_hex(<<97, 64, 98>>)
           /\ u.id = "u2"
           /\ lastResp.user = thing_to_string(u.id)
           /\ issued.set
           /\ issued.sub = thing_to_string(u.id)
    /\ lastResp.status = 200


\* Two texts that differ at most in the case of their letters.
SameUpToCase(a, b) ==
    /\ Len(a) = Len(b)
    /\ \A i \in 1..Len(a) :
           \/ a[i] = b[i]
           \/ (a[i] \in 65..90 /\ b[i] = a[i] + 32)
           \/ (b[i] \in 65..90 /\ a[i] = b[i] + 32)

\* The email an identity was registered with, as the store holds it.
StoredEmail(u) == decrypt_with_nonce(generate_key(envEncKey).val, u.encrypted_email).val

\* This step serves a registration whose email equals, up to letter case,
\* the email of an identity stored before the step.
RepeatedRegistration ==
    /\ lastResp'.handler = "register"
    /\ \E u \in users : SameUpToCase(StoredEmail(u), lastReq'.email)

\* C18: once a registration with email E has succeeded, every later
\* registration whose email equals E up to letter case is rejected and
\* leaves the stored identities as they were; it is answered 409 as
\* already existing (400 when another field of the request is ill-formed).
RepeatedRegistrationRejected ==
    [][RepeatedRegistration =>
           /\ users' = users
           /\ lastResp'.user = ""
           /\ IF validate_register(lastReq')
              THEN lastResp'.status = 409 /\ lastResp'.message = "UserAlreadyExists"
              ELSE lastResp'.status = 400]_vars

\* "a@b" (or "A@b") is registered and nothing else; a registration with
\* "A@b" has just been turned away with 409.
RepeatedRegistrationWitness ==
    /\ lastResp.handler = "register"
    /\ lastResp.status = 409
    /\ lastResp.message = "UserAlreadyExists"
    /\ lastReq.email = <<65, 64, 98>>
    /\ Cardinality(users) = 1
    /\ \A u \in users : StoredEmail(u) = <<97, 64, 98>>


(***************************************************************************)
(* Concurrent registration (database.rs): callers of Database::register    *)
(* and Database::authenticate_user, given emails as they come.  A          *)
(* registration is two statements sent to the store, the SELECT of the     *)
(* existence pre-check and the CREATE; statements of different callers     *)
(* interleave.                                                             *)
(***************************************************************************)
Callers == {"p", "q"}

Call(kind, pc, email, draw, passed, result) ==
    [kind |-> kind, pc |-> pc, email |-> email, email_hash |-> sha256_hex(email),
     draw |-> draw, passed |-> passed, result |-> result]

NoDraw == Draws("", <<>>, <<>>, <<>>, 0)

NoCall == [kind |-> "none", pc |-> "idle", email |-> <<>>, email_hash |-> 0,
           draw |-> NoDraw, passed |-> FALSE, result |-> NoResult]

InitRace ==
    /\ envEncKey = EnvSet(Secret32)
    /\ CipherIdle
    /\ HashIdle
    /\ JwtIdle
    /\ StoreIdle
    /\ GuardIdle
    /\ calls = [c \in Callers |-> NoCall]
    /\ HostIdle

\* Database::register is entered and hashes the email it was given.
CallRegister(c, email, draw) ==
    /\ calls[c].pc = "idle"
    \* Uuid::new_v4: an id no other call and no stored row has
    /\ \A d \in Callers : calls[d].draw.uuid # draw.uuid
    /\ \A u \in users : u.id # draw.uuid
    /\ calls' = [calls EXCEPT ![c] = Call("register", "select", email, draw, FALSE, NoResult)]
    /\ UNCHANGED <<storeVars, jwtVars, cipherVars, hashVars, guardVars, hostVars>>

\* The existence pre-check: SELECT * FROM users WHERE email_hash = ..
PreCheck(c) ==
    /\ calls[c].pc = "select"
    /\ calls' = IF \E u \in users : u.email_hash = calls[c].email_hash
                THEN [calls EXCEPT ![c].pc = "done",
                                   ![c].result = Err("UserAlreadyExists")]
                ELSE [calls EXCEPT ![c].pc = "create", ![c].passed = TRUE]
    /\ UNCHANGED <<storeVars, jwtVars, cipherVars, hashVars, guardVars, hostVars>>

\* self.db.query(sql).bind(vars).await as register reads it: the call looks
\* at nothing but whether the await returned Ok.  The await returns Err when
\* the statement's failure is surfaced by the await itself; when the
\* failure travels inside the Response, which register never opens with
\* take() or check(), the await returns Ok.  Which of the two the client
\* library does is its matter: surfaced ranges over both.
query_await(statement, surfaced) ==
    IF statement.kind = "Ok" \/ surfaced THEN statement ELSE Ok(TRUE)

\* The key, the encrypted fields, the password hash and the CREATE.
Create(c, surfaced) ==
    /\ calls[c].pc = "create"
    /\ LET key == generate_key(envEncKey)
           created == create_users(users,
                          new_user(<<65>>, <<66>>, "ann", Password1,
                                   calls[c].email, calls[c].draw, key.val))
       IN  /\ users' = created.users
           /\ calls' = [calls EXCEPT ![c].pc = "done",
                                     ![c].result = query_await(created.result, surfaced)]
    /\ UNCHANGED <<offers, lastResp, lastReq, held,
                   jwtVars, cipherVars, hashVars, guardVars, hostVars>>

\* Database::authenticate_user, a single SELECT.
CallAuthenticate(c, email, password) ==
    /\ calls[c].pc = "idle"
    /\ calls' = [calls EXCEPT ![c] =
                     Call("authenticate", "done", email, NoDraw, FALSE,
                          authenticate_user(users, email, password))]
    /\ UNCHANGED <<storeVars, jwtVars, cipherVars, hashVars, guardVars, hostVars>>

\* The call returns to its caller, who may call again.
Return(c) ==
    /\ calls[c].pc = "done"
    /\ calls' = [calls EXCEPT ![c] = NoCall]
    /\ UNCHANGED <<storeVars, jwtVars, cipherVars, hashVars, guardVars, hostVars>>

NextRace ==
    \/ \E c \in Callers, email \in ValidEmails, draw \in RegisterDraws :
           CallRegister(c, email, draw)
    \/ \E c \in Callers : PreCheck(c)
    \/ \E c \in Callers, surfaced \in BOOLEAN : Create(c, surfaced)
    \/ \E c \in Callers, email \in ValidEmails : CallAuthenticate(c, email, Password1)
    \/ \E c \in Callers : Return(c)

SpecRace == InitRace /\ [][NextRace]_vars


(***************************************************************************)
(* Properties of the lookup digest and of concurrent registration          *)
(***************************************************************************)
\* C19: the lookup digest is deterministic and case-insensitive in its
\* input: the digests that Database::register and
\* Database::authenticate_user compute for two emails that differ only in
\* letter case are the same, and so are the digests of one email computed
\* twice.
DigestCaseInsensitive ==
    \A c, d \in Callers :
        (/\ calls[c].kind # "none"
         /\ calls[d].kind # "none"
         /\ SameUpToCase(calls[c].email, calls[d].email))
        => calls[c].email_hash = calls[d].email_hash

\* The digests of the calls in flight and of the stored rows depend on the
\* email alone: equal emails, equal digests.
DigestDeterministic ==
    /\ \A c, d \in Callers :
           (calls[c].kind # "none" /\ calls[d].kind # "none"
            /\ calls[c].email = calls[d].email)
           => calls[c].email_hash = calls[d].email_hash
    /\ \A c \in Callers, u \in users :
           (calls[c].kind # "none" /\ StoredEmail(u) = calls[c].email)
           => u.email_hash = calls[c].email_hash

\* C20: under every interleaving of concurrent register calls, no two
\* stored identities have the same lookup digest.
DigestUnique ==
    \A u, v \in users : u.email_hash = v.email_hash => u = v

\* Two register calls for "c@d" both passed the existence pre-check before
\* either inserted; one row is stored and the other call's CREATE was
\* turned down by the index.
DigestUniqueWitness ==
    /\ calls["p"].kind = "register" /\ calls["q"].kind = "register"
    /\ calls["p"].email = <<99, 64, 100>> /\ calls["q"].email = <<99, 64, 100>>
    /\ calls["p"].draw.uuid # calls["q"].draw.uuid
    /\ calls["p"].passed /\ calls["q"].passed
    /\ calls["p"].pc = "done" /\ calls["q"].pc = "done"
    /\ calls["p"].result = Ok(TRUE)
    /\ calls["q"].result = Err("DatabaseError")
    /\ Cardinality(users) = 1
    /\ \A u \in users : u.id = calls["p"].draw.uuid


\* The register call of this caller has returned success.
ReportsSuccess(c) ==
    /\ calls[c].kind = "register"
    /\ calls[c].pc = "done"
    /\ calls[c].result = Ok(TRUE)

\* C21: a register call returns success only if its identity was
\* persisted: the call whose CREATE the store turned down for the
\* duplicate digest reports failure, so of two calls racing for one email
\* at most one reports success.
SuccessMeansPersisted ==
    /\ \A c \in Callers :
           ReportsSuccess(c) =>
               \E u \in users : /\ u.id = calls[c].draw.uuid
                                /\ u.email_hash = calls[c].email_hash
    /\ \A c, d \in Callers :
           (/\ c # d
            /\ calls[c].email = calls[d].email
            /\ calls[c].passed /\ calls[d].passed
            /\ ReportsSuccess(c))
           => ~ReportsSuccess(d)


(***************************************************************************)
(* Key derivation (encryption.rs): generate_key is called in a process     *)
(* whose ENCRYPTION_KEY is absent, or present with a value of any length.  *)
(***************************************************************************)
MaxSecretLen == 40

\* A printable secret of n bytes.
SecretOf(n, fill) == [i \in 1..n |-> 33 + ((fill + i) % 90)]

\* Secrets of every length up to MaxSecretLen, and values that are not
\* valid Unicode: one byte, 32 bytes, 33 bytes.
KeySecrets ==
    {SecretOf(n, fill) : n \in 0..MaxSecretLen, fill \in {0, 7}}
    \cup {<<255>>, Rep(KeyLen, 255), Rep(KeyLen + 1, 128)}

InitKey ==
    /\ envEncKey \in {EnvSet(s) : s \in KeySecrets} \cup {EnvAbsent}
    /\ CipherIdle
    /\ HashIdle
    /\ JwtIdle
    /\ StoreIdle
    /\ GuardIdle
    /\ RaceIdle
    /\ HostIdle

GenerateKey ==
    /\ keyResult' = generate_key(envEncKey)
    /\ UNCHANGED <<process, log, namespace, ops, cipherVars, hashVars, jwtVars,
                   storeVars, guardVars, raceVars>>

NextKey == GenerateKey

SpecKey == InitKey /\ [][NextKey]_vars

\* C22: for every configured secret s the key generate_key returns has 32
\* bytes: a secret of 32 bytes is the key, a shorter one is followed by
\* zero bytes, a longer one is cut to its first 32 bytes.
KeyFromSecret ==
    keyResult.kind = "Ok" =>
        LET s == envEncKey.val
            key == keyResult.val
        IN  /\ Len(key) = 32
            /\ Len(s) = 32 => key = s
            /\ Len(s) < 32 => key = s \o [i \in 1..(32 - Len(s)) |-> 0]
            /\ Len(s) > 32 => key = SubSeq(s, 1, 32)

\* A key was derived from a secret of 33 bytes: its first 32.
KeyFromSecretWitness ==
    /\ envEncKey = EnvSet(SecretOf(33, 7))
    /\ keyResult.kind = "Ok"
    /\ keyResult.val = SecretOf(32, 7)

\* generate_key has been called.
KeyAsked == keyResult.kind # "None"

\* C23 as stated: generate_key returns an error if and only if the secret
\* is absent; for every present secret, of any length, it returns a key.
KeyErrorIffAbsent ==
    KeyAsked =>
        /\ keyResult.kind \in {"Ok", "Err"}
        /\ (keyResult.kind = "Err") <=> ~envEncKey.set

\* C23: generate_key returns an error if and only if the secret is absent
\* or its value is not valid Unicode; for every other present secret, of
\* any length, it returns a key, and it never panics.
KeyErrorIffAbsentOrNotUnicode ==
    KeyAsked =>
        /\ keyResult.kind \in {"Ok", "Err"}
        /\ (keyResult.kind = "Err") <=> (~envEncKey.set \/ ~IsUtf8(envEncKey.val))
        /\ keyResult.kind = "Err" => keyResult.err = "EnvironmentVariableError"

\* The empty secret is present: generate_key returned the all-zero key.
KeyErrorWitness ==
    /\ envEncKey = EnvSet(<<>>)
    /\ keyResult = Ok([i \in 1..KeyLen |-> 0])


(***************************************************************************)
(* What a change of username or password may touch.                        *)
(***************************************************************************)
Immutable(u) ==
    <<u.id, u.encrypted_firstname, u.encrypted_lastname, u.encrypted_email,
      u.email_hash, u.created_at>>

\* One identity per id, before and after the step.
SameIdentities ==
    /\ Cardinality(users') = Cardinality(users)
    /\ {u.id : u \in users'} = {u.id : u \in users}

\* C24: once an identity is created its id, its three encrypted fields, its
\* email digest and its creation time never change; a served change_username
\* alters nothing but the username of the identity whose id the handler
\* passed, a served change_password nothing but that identity's password
\* hash, and neither adds or removes an identity.
ChangeFrame ==
    [][/\ \A u \in users :
              \E v \in users' : v.id = u.id /\ Immutable(v) = Immutable(u)
       /\ lastResp'.handler = "change_username" =>
              /\ SameIdentities
              /\ \A u \in users :
                     \/ u \in users'
                     \/ /\ thing_to_string(u.id) = lastResp'.user
                        /\ [u EXCEPT !.username = lastReq'.username] \in users'
       /\ lastResp'.handler = "change_password" =>
              /\ SameIdentities
              /\ \A u \in users :
                     \/ u \in users'
                     \/ /\ thing_to_string(u.id) = lastResp'.user
                        /\ \E v \in users' :
                               v = [u EXCEPT !.password_hash = v.password_hash]
      ]_vars

\* Two identities exist, the username of one was changed on its owner's
\* request and the other one kept its own.
ChangeFrameWitness ==
    /\ lastResp.handler = "change_username"
    /\ lastResp.status = 200
    /\ \E u, v \in users :
           /\ thing_to_string(u.id) = lastResp.user
           /\ u.username = lastReq.username
           /\ v.id # u.id
           /\ v.username # lastReq.username


(***************************************************************************)
(* The process from its start: run_server/start reads its configuration,   *)
(* opens the store and serves.  ENCRYPTION_KEY and JWT_SECRET are set or   *)
(* absent when the process starts.  The log is the set of lines written so *)
(* far, each with the place that wrote it and the text it formatted into   *)
(* the line (empty for a line without arguments).                          *)
(***************************************************************************)
MaxLogged == 24

LogLine(site, text) == [site |-> site, text |-> text]

\* tracing::info!("{:?}", req.0): the derived Debug prints every field of
\* the request body.  The username, a string of the model, is left out.
debug_register_request(req) ==
    {LogLine("server.rs:281", req.firstname), LogLine("server.rs:281", req.lastname),
     LogLine("server.rs:281", req.password), LogLine("server.rs:281", req.email)}

\* The lines Database::register writes.
db_register_log(table, email, registered) ==
    {LogLine("database.rs:311", email)}
    \cup (IF \E u \in table : u.email_hash = sha256_hex(email)
          THEN {LogLine("database.rs:327", <<sha256_hex(email)>>)}
          ELSE IF generate_key(envEncKey).kind # "Ok"
          THEN {LogLine("encryption.rs:26", <<>>), LogLine("database.rs:337", <<>>)}
          ELSE IF registered.result.kind = "Ok"
          THEN {LogLine("database.rs:389", <<sha256_hex(email)>>)}
          ELSE {LogLine("database.rs:396", <<>>)})

\* The lines Database::authenticate_user writes.
authenticate_user_log(table, email, password) ==
    {LogLine("database.rs:427", email)}
    \cup (IF authenticate_user(table, email, password).kind = "Ok"
          THEN {LogLine("database.rs:448", <<sha256_hex(email)>>)}
          ELSE IF authenticate_user(table, email, password).err = "InvalidPassword"
          THEN {LogLine("database.rs:454", <<sha256_hex(email)>>)}
          ELSE {LogLine("database.rs:458", <<sha256_hex(email)>>)})

\* The lines the register handler and its callees write.
register_log(req, draw) ==
    LET email == to_lowercase(req.email)
        registered == db_register(users, req.firstname, req.lastname,
                                  req.username, req.password, email, draw)
        user == authenticate_user(registered.users, email, req.password)
    IN  {LogLine("server.rs:280", <<>>), LogLine("server.rs:288", <<>>)}
        \cup debug_register_request(req)
        \cup (IF ~validate_register(req) THEN {LogLine("server.rs:292", <<>>)}
              ELSE db_register_log(users, email, registered)
                   \cup (IF registered.result.kind # "Ok" THEN {}
                         ELSE authenticate_user_log(registered.users, email,
                                                    req.password)
                              \cup (IF user.kind # "Ok"
                                    THEN {LogLine("server.rs:330", <<>>)}
                                    ELSE {})))

\* The lines the login handler and its callees write.
login_log(req) ==
    LET email == to_lowercase(req.email)
        user == authenticate_user(users, email, req.password)
    IN  {LogLine("server.rs:357", <<>>)}
        \cup (IF ~validate_login(req) THEN {LogLine("server.rs:360", <<>>)}
              ELSE authenticate_user_log(users, email, req.password)
                   \cup (IF user.kind = "Ok" THEN {LogLine("server.rs:374", <<>>)}
                         ELSE {LogLine("server.rs:387", <<>>)}))

\* "a@b" and "c@d" well-formed, one body with a password too short
HostRegisterRequests ==
    {RegisterRequest(<<65>>, <<66>>, "ann", Password1, <<97, 64, 98>>),
     RegisterRequest(<<67>>, <<68>>, "ann", Password2, <<99, 64, 100>>),
     RegisterRequest(<<65>>, <<66>>, "ann", ShortPassword, <<97, 64, 98>>)}

HostLoginRequests ==
    {[email |-> <<97, 64, 98>>, password |-> Password1],
     [email |-> <<97, 64, 98>>, password |-> Password2],
     [email |-> <<97, 98>>, password |-> Password1]}

InitHost ==
    /\ envEncKey \in {EnvSet(Secret32), EnvAbsent}
    /\ envJwtSecret \in {EnvSet("secret"), EnvAbsent}
    /\ now = ClockStart
    /\ issued = NoToken
    /\ valInput = <<>>
    /\ valKind = "none"
    /\ valResult = NoResult
    /\ extResult = NoResult
    /\ CipherIdle
    /\ HashIdle
    /\ StoreIdle
    /\ GuardIdle
    /\ RaceIdle
    /\ HostIdle

\* start: the log file, .env, the store, SERVER_IP and SERVER_PORT, the
\* rate limiter and the bind either all succeed (configured) or the first
\* that fails ends the process.  Neither secret is read.
Start(configured) ==
    /\ process = "none"
    /\ process' = IF configured THEN "serving" ELSE "exited"
    /\ log' = log \cup {LogLine("server.rs:116", <<>>)}
    /\ UNCHANGED <<envEncKey, envJwtSecret, now, issued, valInput, valKind,
                   valResult, extResult, blob, decInput, decKind, decResult,
                   encLog, hashVars, storeVars, guardVars, raceVars,
                   keyResult, namespace, ops>>

\* A request while the process serves: the handler's effect and its lines.
HostServe(effect, req, lines) ==
    /\ process = "serving"
    /\ Cardinality(log) < MaxLogged
    /\ lastResp' = effect.resp
    /\ lastReq' = req
    /\ users' = effect.users
    /\ offers' = effect.offers
    /\ log' = log \cup lines
    /\ UNCHANGED <<envEncKey, envJwtSecret, now, issued, held, valInput, valKind,
                   valResult, extResult, blob, decInput, decKind, decResult,
                   encLog, hashVars, guardVars, raceVars,
                   keyResult, process, namespace, ops>>

HostRegister(req, draw) ==
    /\ \A u \in users : u.id # draw.uuid
    /\ HostServe(register(Cred("none", NoAuth), req, draw, now, now), req,
                 register_log(req, draw))

HostLogin(req) ==
    /\ req \in HostLoginRequests
    /\ HostServe(login(Cred("none", NoAuth), req, now, now), req, login_log(req))

NextHost ==
    \/ \E configured \in BOOLEAN : Start(configured)
    \/ \E req \in HostRegisterRequests, draw \in RegisterDraws : HostRegister(req, draw)
    \/ \E req \in HostLoginRequests : HostLogin(req)

SpecHost == InitHost /\ [][NextHost]_vars

\* The texts of the last request's body that the log must not show.
SensitiveTexts ==
    IF lastResp.handler = "register"
    THEN {lastReq.password, lastReq.email, lastReq.firstname, lastReq.lastname}
    ELSE IF lastResp.handler = "login" THEN {lastReq.password, lastReq.email}
    ELSE {}

\* C25: no line of the log holds a password, an email address, a first or
\* last name in plaintext, or the encryption key.
NoPlaintextLogged ==
    \A l \in log :
        /\ l.text \notin SensitiveTexts
        /\ envEncKey.set => l.text # envEncKey.val

\* C26: the process serves, and answers a request, only if both the
\* encryption secret and the signing secret are configured.
FailFast ==
    (process = "serving" \/ lastResp.handler # "none")
        => (envEncKey.set /\ envJwtSecret.set)

\* C27: the registration endpoint answers with the conflict outcome only
\* when an identity with the request's email exists.
ConflictOnlyForExistingEmail ==
    (lastResp.handler = "register" /\ lastResp.status = 409)
        => \E u \in users : u.email_hash = sha256_hex(to_lowercase(lastReq.email))


(***************************************************************************)
(* The one connection and its namespace.  Database is cloned into every    *)
(* worker, the clones share the connection, and use_ns changes the         *)
(* namespace of the connection.  Every operation of Database first         *)
(* switches the namespace and then sends its queries; both are await       *)
(* points, so operations of concurrent requests interleave between them.   *)
(***************************************************************************)
NsRequests == {"r1", "r2"}

UserOperations ==
    {"register", "authenticate_user", "change_username", "change_password"}

OfferOperations ==
    {"create_offer", "get_all_offers", "get_offer_by_id",
     "get_offers_by_seller_id", "update_offer", "delete_offer"}

\* use_user_namespace / use_offer_namespace: the namespace an operation
\* switches to.
namespace_of(op) == IF op \in UserOperations THEN "user" ELSE "offer"

\* register sends its SELECT and, unless it returns early, its CREATE;
\* every other operation sends one query.
queries_of(op) == IF op = "register" THEN 2 ELSE 1

Operation(op, pc, left, ran) == [op |-> op, pc |-> pc, left |-> left, ran |-> ran]

NoOperation == Operation("", "idle", 0, {})

\* Database::new leaves the connection in the offer namespace.
InitNs ==
    /\ envEncKey = EnvSet(Secret32)
    /\ envJwtSecret = EnvSet("secret")
    /\ now = ClockStart
    /\ issued = NoToken
    /\ valInput = <<>>
    /\ valKind = "none"
    /\ valResult = NoResult
    /\ extResult = NoResult
    /\ CipherIdle
    /\ HashIdle
    /\ StoreIdle
    /\ GuardIdle
    /\ RaceIdle
    /\ keyResult = NoResult
    /\ process = "serving"
    /\ log = {}
    /\ namespace = "offer"
    /\ ops = [r \in NsRequests |-> NoOperation]

NsStep(r, operation, ns) ==
    /\ ops' = [ops EXCEPT ![r] = operation]
    /\ namespace' = ns
    /\ UNCHANGED <<cipherVars, hashVars, jwtVars, storeVars, guardVars, raceVars,
                   keyResult, process, log>>

\* A handler calls an operation of Database.
CallOperation(r, op) ==
    /\ ops[r].pc = "idle"
    /\ NsStep(r, Operation(op, "called", queries_of(op), {}), namespace)

\* self.use_user_namespace().await? or self.use_offer_namespace().await?
UseNs(r) ==
    /\ ops[r].pc = "called"
    /\ NsStep(r, [ops[r] EXCEPT !.pc = "switched"], namespace_of(ops[r].op))

\* self.db.query(sql).await: the query runs in the namespace the
\* connection is in at that moment.  The operation returns after its last
\* query, or early.
Query(r, returns) ==
    /\ ops[r].pc = "switched"
    /\ ops[r].left = 1 => returns
    /\ NsStep(r, [ops[r] EXCEPT !.pc = IF returns THEN "done" ELSE "switched",
                                !.left = @ - 1,
                                !.ran = @ \cup {namespace}],
              namespace)

NextNs ==
    \/ \E r \in NsRequests, op \in UserOperations \cup OfferOperations :
           CallOperation(r, op)
    \/ \E r \in NsRequests : UseNs(r)
    \/ \E r \in NsRequests, returns \in BOOLEAN : Query(r, returns)

SpecNs == InitNs /\ [][NextNs]_vars

\* C28: every query of a user operation runs in the user namespace and
\* every query of an offer operation in the offer namespace.
QueriesInOwnNamespace ==
    \A r \in NsRequests : ops[r].ran \subseteq {namespace_of(ops[r].op)}


(***************************************************************************)
(* Offers and their sellers: two subjects, each with a token of its own,   *)
(* create, update and delete offers.                                       *)
(***************************************************************************)
\* The token a login of the subject was handed at the start.
OwnerCred(subject) == Cred(subject, Bearer(generate_jwt(subject, now, now).val))

InitOwner ==
    /\ envEncKey = EnvSet(Secret32)
    /\ JwtIdle
    /\ CipherIdle
    /\ HashIdle
    /\ StoreIdle
    /\ GuardIdle
    /\ RaceIdle
    /\ HostIdle

OwnerCreate(subject, req, offer_id) ==
    /\ envJwtSecret.set
    /\ \A o \in offers : o.id # offer_id
    /\ CreateOffer(OwnerCred(subject), req, offer_id)

OwnerUpdate(subject, offer_id, req, coerced, plain) ==
    /\ envJwtSecret.set
    /\ UpdateOffer(OwnerCred(subject), offer_id, req, coerced, plain)

OwnerDelete(subject, offer_id, coerced, plain) ==
    /\ envJwtSecret.set
    /\ DeleteOffer(OwnerCred(subject), offer_id, coerced, plain)

NextOwner ==
    \/ \E subject \in UserIds, req \in CreateOfferRequests, offer_id \in OfferPaths :
           OwnerCreate(subject, req, offer_id)
    \/ \E subject \in UserIds, offer_id \in OfferPaths, req \in UpdateOfferRequests,
          coerced \in BOOLEAN, plain \in BOOLEAN :
           OwnerUpdate(subject, offer_id, req, coerced, plain)
    \/ \E subject \in UserIds, offer_id \in OfferPaths, coerced \in BOOLEAN,
          plain \in BOOLEAN :
           OwnerDelete(subject, offer_id, coerced, plain)

SpecOwner == InitOwner /\ [][NextOwner]_vars

\* The step answers an update or delete of offer o asked by an
\* authenticated subject with a well-formed body.
AsksChange(o) ==
    /\ lastResp'.handler \in {"update_offer", "delete_offer"}
    /\ lastReq'.offer_id = o.id
    /\ lastResp'.user # ""
    /\ lastResp'.handler = "update_offer" => validate_update_offer(lastReq'.body)

\* An offer changes or disappears only on the request of its seller.
ChangedBySellerOnly ==
    \A o \in offers :
        (lastResp'.handler \in {"update_offer", "delete_offer"} /\ o \notin offers')
            => o.seller_id.id = lastResp'.user

\* A request of another subject is answered 403 and leaves the offer alone.
OtherSubjectForbidden ==
    \A o \in offers :
        (AsksChange(o) /\ o.seller_id.id # lastResp'.user)
            => (lastResp'.status = 403 /\ o \in offers')

\* The seller of a new offer is the subject of the request that created it.
SellerIsCreator ==
    \A o \in offers' \ offers :
        lastResp'.handler = "create_offer" => o.seller_id.id = lastResp'.user

\* C29: an offer is updated or deleted only by a request whose
\* authenticated subject is the offer's seller; a request of any other
\* subject is answered forbidden and leaves the offer unchanged; the seller
\* of a created offer is the subject of the creating request.
OfferOwnership ==
    [][ChangedBySellerOnly /\ OtherSubjectForbidden /\ SellerIsCreator]_vars

OfferOwnershipSafety == [][ChangedBySellerOnly /\ SellerIsCreator]_vars

OwnerChangesOffer ==
    /\ lastResp.handler = "update_offer"
    /\ lastResp.status = 200
    /\ \E o \in offers : o.game_title = "t2" /\ o.seller_id.id = lastResp.user


\* A login with the email the identity registered under and the password.
LoginOf(u, password) ==
    {login(Cred("none", NoAuth), [email |-> e, password |-> password], now, now)
         : e \in {e \in ValidEmails : sha256_hex(to_lowercase(e)) = u.email_hash}}

\* C30: once a change of password to W' was answered as successful for the
\* identity of the token, a login of that identity with W' succeeds and a
\* login with the password it registered with is rejected.
PasswordChangeTakesEffect ==
    (lastResp.handler = "change_password" /\ lastResp.status = 200) =>
        \A u \in users :
            thing_to_string(u.id) = lastResp.user =>
                /\ \A l \in LoginOf(u, lastReq.password) : l.token.kind = "Ok"
                /\ \A l \in LoginOf(u, Password1) : l.token.kind # "Ok"

\* The same, for the requests whose UPDATE matched the identity's row.
PasswordChangeSeen ==
    /\ lastResp.handler = "change_password"
    /\ lastResp.status = 200
    /\ \E u \in users :
           /\ thing_to_string(u.id) = lastResp.user
           /\ \A l \in LoginOf(u, lastReq.password) : l.token.kind = "Ok"
           /\ \A l \in LoginOf(u, Password1) : l.token.kind # "Ok"

=============================================================================
